---- MODULE Spec2Model ----
(***************************************************************************)
(* Customer support agent: text analysis, article store (KnowledgeBase),   *)
(* ticket store (TicketRetriever) and response composer                    *)
(* (CustomerSupportAgent).                                                 *)
(*                                                                         *)
(* A Python str is a sequence of one-character strings.  A float score is  *)
(* an exact rational <<numerator, denominator>> with denominator > 0.      *)
(***************************************************************************)
EXTENDS Integers, Sequences, FiniteSets, TLC

VARIABLES
    articles,              \* KnowledgeBase._articles
    SIMILARITY_THRESHOLD,  \* Config.SIMILARITY_THRESHOLD, in tenths
    tickets_file,          \* content of data/tickets.json
    credentials,           \* which of TicketRetriever.username / .api_token are set
    conversation_history,  \* CustomerSupportAgent.conversation_history
    now,                   \* the clock datetime.now() reads
    calls,                 \* every process_query call that returned, in call order
    op,                    \* the last call: its name and arguments
    prev_op,               \* the name of the call before the last
    ret,                   \* what the last call returned (or that it raised)
    text_args,             \* the texts a caller passes to the method it calls
    base_path,             \* the files of the knowledge base directory
    chat                   \* interactive_chat: where its loop is, what it showed

vars == <<articles, SIMILARITY_THRESHOLD, tickets_file, credentials,
          conversation_history, now, calls, op, prev_op, ret, text_args,
          base_path, chat>>

\* None where a str is expected
NoneVal == <<"None">>

\* an optional integer argument: not given, or given as n
NotGiven == <<>>

Given(n) == <<n>>

(***************************************************************************)
(* Characters and strings                                                  *)
(***************************************************************************)
UpperChars ==
    <<"A","B","C","D","E","F","G","H","I","J","K","L","M",
      "N","O","P","Q","R","S","T","U","V","W","X","Y","Z">>

LowerChars ==
    <<"a","b","c","d","e","f","g","h","i","j","k","l","m",
      "n","o","p","q","r","s","t","u","v","w","x","y","z">>

DigitChars == {"0","1","2","3","4","5","6","7","8","9"}

SpaceChars == {" ", "\t", "\n"}

UpperSet == {UpperChars[i] : i \in 1..Len(UpperChars)}

LowerSet == {LowerChars[i] : i \in 1..Len(LowerChars)}

\* the regular expression class \w
WordChars == UpperSet \cup LowerSet \cup DigitChars \cup {"_"}

IsWordChar(c) == c \in WordChars

\* str.lower() and str.upper() on the letters
LowerOf == [c \in UpperSet |-> LowerChars[CHOOSE i \in 1..Len(UpperChars) : UpperChars[i] = c]]

UpperOf == [c \in LowerSet |-> UpperChars[CHOOSE i \in 1..Len(LowerChars) : LowerChars[i] = c]]

lower_char(c) == IF c \in UpperSet THEN LowerOf[c] ELSE c

upper_char(c) == IF c \in LowerSet THEN UpperOf[c] ELSE c

\* A sequence given as a function, as an explicit tuple: TLC keeps a function
\* constructor unevaluated and would recompute it at every use.
AsTuple(f) == SubSeq(f, 1, Len(f))

\* str.lower()
lower(s) == AsTuple([i \in 1..Len(s) |-> lower_char(s[i])])

\* str.upper()
upper(s) == AsTuple([i \in 1..Len(s) |-> upper_char(s[i])])

\* the Python test `sub in s` on strings
Contains(sub, s) ==
    \E i \in 0..(Len(s) - Len(sub)) : SubSeq(s, i + 1, i + Len(sub)) = sub

\* " ".join(parts)
RECURSIVE JoinSpace(_)
JoinSpace(parts) ==
    IF parts = <<>> THEN <<>>
    ELSE IF Len(parts) = 1 THEN parts[1]
    ELSE parts[1] \o <<" ">> \o JoinSpace(Tail(parts))

\* the elements of a sequence
Range(s) == {s[i] : i \in 1..Len(s)}

\* the Python slice s[:n]
SliceTo(s, n) ==
    IF n >= 0
    THEN SubSeq(s, 1, IF n < Len(s) THEN n ELSE Len(s))
    ELSE SubSeq(s, 1, IF Len(s) + n > 0 THEN Len(s) + n ELSE 0)

(***************************************************************************)
(* Rational scores and the stable descending sort                          *)
(***************************************************************************)
Rat(n, d) == <<n, d>>

RatLess(a, b) == a[1] * b[2] < b[1] * a[2]

RatGeq(a, b) == ~RatLess(a, b)

RatEq(a, b) == a[1] * b[2] = b[1] * a[2]

RatAdd(a, b) == <<a[1] * b[2] + b[1] * a[2], a[2] * b[2]>>

RatScale(k, a) == Rat(k * a[1], a[2])

RatPos(a) == a[1] > 0

\* The stable descending sort of list.sort(key=..., reverse=True) and of
\* Counter.most_common(): an element goes in front of the first element whose
\* key is strictly smaller, so equal keys keep their original order.
\* an insertion that puts an entry before the entries of equal key
RECURSIVE insert_before_equal(_, _)
insert_before_equal(sorted, e) ==
    IF sorted = <<>> THEN <<e>>
    ELSE IF ~RatLess(e.key, Head(sorted).key) THEN <<e>> \o sorted
    ELSE <<Head(sorted)>> \o insert_before_equal(Tail(sorted), e)

RECURSIVE InsertDesc(_, _)
InsertDesc(sorted, e) ==
    IF sorted = <<>> THEN <<e>>
    ELSE IF RatLess(Head(sorted).key, e.key) THEN <<e>> \o sorted
    ELSE <<Head(sorted)>> \o InsertDesc(Tail(sorted), e)

RECURSIVE SortDesc(_)
SortDesc(s) ==
    IF s = <<>> THEN <<>>
    ELSE InsertDesc(SortDesc(SubSeq(s, 1, Len(s) - 1)), s[Len(s)])

(***************************************************************************)
(* TextProcessor                                                           *)
(***************************************************************************)
stop_words == {
    <<"t","h","e">>, <<"i","s">>, <<"a","t">>, <<"w","h","i","c","h">>, <<"o","n">>,
    <<"a">>, <<"a","n">>, <<"a","s">>, <<"a","r","e">>, <<"w","a","s">>,
    <<"w","e","r","e">>, <<"b","e","e","n">>, <<"b","e">>, <<"h","a","v","e">>,
    <<"h","a","s">>, <<"h","a","d">>, <<"d","o">>, <<"d","o","e","s">>, <<"d","i","d">>,
    <<"w","i","l","l">>, <<"w","o","u","l","d">>, <<"s","h","o","u","l","d">>,
    <<"c","o","u","l","d">>, <<"m","a","y">>, <<"m","i","g","h","t">>,
    <<"m","u","s","t">>, <<"c","a","n">>, <<"t","h","i","s">>, <<"t","h","a","t">>,
    <<"t","h","e","s","e">>, <<"t","h","o","s","e">>}

min_length == 3

\* re.findall(r'\b\w+\b', s): the maximal runs of word characters, in order
FindWords(s) ==
    LET starts == {i \in 1..Len(s) :
                      IsWordChar(s[i]) /\ (i = 1 \/ ~IsWordChar(s[i - 1]))}
        ends   == {j \in 1..Len(s) :
                      IsWordChar(s[j]) /\ (j = Len(s) \/ ~IsWordChar(s[j + 1]))}
        nth(set, n) == CHOOSE i \in set : Cardinality({k \in set : k < i}) = n - 1
    IN  AsTuple([n \in 1..Cardinality(starts) |->
                     SubSeq(s, nth(starts, n), nth(ends, n))])

\* the distinct elements of a sequence, in order of first occurrence
Distinct(s) ==
    LET firsts == SelectSeq(AsTuple([i \in 1..Len(s) |-> i]),
                            LAMBDA i : \A j \in 1..(i - 1) : s[j] # s[i])
    IN  AsTuple([k \in 1..Len(firsts) |-> s[firsts[k]]])

Count(s, w) == Cardinality({i \in 1..Len(s) : s[i] = w})

\* the end of the longest run of characters of the set that starts at i
\* (i - 1 when s[i] is not of the set)
RunEnd(s, i, chars) ==
    LET stops == {j \in i..Len(s) : s[j] \notin chars}
    IN  IF stops = {} THEN Len(s)
        ELSE (CHOOSE j \in stops : \A k \in stops : j <= k) - 1

\* the least element of a non-empty set of positions
First(positions) == CHOOSE i \in positions : \A j \in positions : i <= j

AsciiLetters == UpperSet \cup LowerSet

\* where r'[A-Z]+-\d+' matches under re.IGNORECASE
jira_style_starts(s) ==
    {i \in 1..Len(s) :
        /\ s[i] \in AsciiLetters
        /\ RunEnd(s, i, AsciiLetters) + 2 <= Len(s)
        /\ s[RunEnd(s, i, AsciiLetters) + 1] = "-"
        /\ s[RunEnd(s, i, AsciiLetters) + 2] \in DigitChars}

\* re.search(r'[A-Z]+-\d+', text).group(0): the leftmost match, each
\* repetition as long as it can be
jira_style_match(s) ==
    SubSeq(s, First(jira_style_starts(s)),
           RunEnd(s, RunEnd(s, First(jira_style_starts(s)), AsciiLetters) + 2, DigitChars))

\* where r'#\d+' matches
hash_number_starts(s) ==
    {i \in 1..(Len(s) - 1) : s[i] = "#" /\ s[i + 1] \in DigitChars}

hash_number_match(s) ==
    SubSeq(s, First(hash_number_starts(s)),
           RunEnd(s, First(hash_number_starts(s)) + 1, DigitChars))

\* a reference that keeps its '#'
keep_hash(s) == s

\* str.replace('#', '')
remove_hash(s) == SelectSeq(s, LAMBDA c : c # "#")

\* where r'#[A-Z]+-\d+' matches under re.IGNORECASE
hash_jira_starts(s) ==
    {i \in 1..(Len(s) - 1) : s[i] = "#" /\ (i + 1) \in jira_style_starts(s)}

hash_jira_match(s) ==
    SubSeq(s, First(hash_jira_starts(s)),
           RunEnd(s, RunEnd(s, First(hash_jira_starts(s)) + 1, AsciiLetters) + 2, DigitChars))

\* where r'TICKET-\d+' matches under re.IGNORECASE
ticket_word_starts(s) ==
    {i \in 1..(Len(s) - 7) :
        /\ upper(SubSeq(s, i, i + 5)) = <<"T","I","C","K","E","T">>
        /\ s[i + 6] = "-"
        /\ s[i + 7] \in DigitChars}

ticket_word_match(s) ==
    SubSeq(s, First(ticket_word_starts(s)),
           RunEnd(s, First(ticket_word_starts(s)) + 7, DigitChars))

\* re.search(pattern, text, re.IGNORECASE) for each pattern of the list, in
\* the order of the list: the matched text, or None
pattern_matches(text) ==
    << IF jira_style_starts(text) = {} THEN NoneVal ELSE jira_style_match(text),
       IF hash_jira_starts(text) = {} THEN NoneVal ELSE hash_jira_match(text),
       IF ticket_word_starts(text) = {} THEN NoneVal ELSE ticket_word_match(text),
       IF hash_number_starts(text) = {} THEN NoneVal ELSE hash_number_match(text) >>

\* TextProcessor.extract_ticket_reference(text): the loop returns at the
\* first pattern that matches
extract_ticket_reference(text) ==
    LET found == SelectSeq(pattern_matches(text), LAMBDA m : m # NoneVal)
    IN  IF found = <<>> THEN <<>> ELSE upper(remove_hash(found[1]))

\* the words but the first
all_but_first(words) == IF words = <<>> THEN <<>> ELSE Tail(words)

\* [word for word in words if len(word) >= min_length and word not in stop_words]
filter_keywords(words) ==
    SelectSeq(words, LAMBDA w : Len(w) >= min_length /\ w \notin stop_words)

\* Counter(keywords): each distinct word with its count, in first-seen order
Counter(keywords) ==
    LET uniq == Distinct(keywords)
    IN  AsTuple([i \in 1..Len(uniq) |->
                     [key |-> Rat(Count(keywords, uniq[i]), 1), val |-> uniq[i]]])

\* the words in the order the counter first saw them
in_first_seen_order(word_counts) ==
    AsTuple([i \in 1..Len(word_counts) |-> word_counts[i].val])

\* [word for word, count in word_counts.most_common()]
most_common_words(word_counts) ==
    LET common == SortDesc(word_counts)
    IN  AsTuple([i \in 1..Len(common) |-> common[i].val])

\* TextProcessor.extract_keywords(text)
extract_keywords(text) ==
    most_common_words(Counter(filter_keywords(FindWords(lower(text)))))

\* re.sub(r'\s+', ' ', text): every run of whitespace becomes one space
CollapseSpaces(s) ==
    LET kept == SelectSeq(AsTuple([i \in 1..Len(s) |-> i]),
                          LAMBDA i : ~(s[i] \in SpaceChars /\ i > 1 /\ s[i - 1] \in SpaceChars))
    IN  AsTuple([k \in 1..Len(kept) |->
                     IF s[kept[k]] \in SpaceChars THEN " " ELSE s[kept[k]]])

\* str.strip()
Strip(s) ==
    LET solid == {i \in 1..Len(s) : s[i] \notin SpaceChars}
    IN  IF solid = {} THEN <<>>
        ELSE SubSeq(s, CHOOSE i \in solid : \A j \in solid : i <= j,
                       CHOOSE i \in solid : \A j \in solid : i >= j)

\* a text left as it was given
as_given(text) == text

\* TextProcessor.clean_text(text)
clean_text(text) ==
    IF text = <<>> THEN <<>> ELSE Strip(CollapseSpaces(text))

(***************************************************************************)
(* Records                                                                 *)
(***************************************************************************)
\* the identifier f"KB-{n}"
KBId(n) == <<"KB-", n>>

Article(id, title, content, category, tags, keywords) ==
    [id |-> id, title |-> title, content |-> content, category |-> category,
     tags |-> tags, keywords |-> keywords]

JsonList(items) == [kind |-> "list", items |-> items]

JsonDict(item) == [kind |-> "dict", item |-> item]

Unparseable == [kind |-> "malformed"]

\* the fields of a ticket record that the program reads
Ticket(id, title, description, status, priority, comments) ==
    [id |-> id, title |-> title, description |-> description, status |-> status,
     priority |-> priority, comments |-> comments]

Comment(author, body) == [author |-> author, body |-> body]

Absent == [kind |-> "absent"]

Found(ticket) == [kind |-> "ticket", ticket |-> ticket]

Raised(error) == [kind |-> "raised", error |-> error]

Missing == <<"missing">>

\* the body of a response that is not read
NoBody == [kind |-> "none"]

Response(status_code, body) ==
    [kind |-> "response", status_code |-> status_code, body |-> body]

(***************************************************************************)
(* Input texts                                                             *)
(***************************************************************************)
s_empty == <<>>

s_Password == <<"P","a","s","s","w","o","r","d">>

s_reset_link == <<"r","e","s","e","t"," ","l","i","n","k">>

s_auth == <<"a","u","t","h">>

s_login == <<"l","o","g","i","n">>

s_Login == <<"L","o","g","i","n">>

s_pass_code == <<"p","a","s","s"," ","c","o","d","e">>

s_general == <<"g","e","n","e","r","a","l">>

s_FAQ == <<"F","A","Q">>

s_eight_keywords ==
    <<"r","e","s","e","t"," ","l","o","g","i","n"," ","e","m","a","i","l"," ",
      "c","a","c","h","e"," ","c","a","r","d"," ","b","a","n","k"," ","c","o","d","e">>

s_pass == <<"p","a","s","s">>

s_password_kw == <<"p","a","s","s","w","o","r","d">>

s_link == <<"l","i","n","k">>

s_reset == <<"r","e","s","e","t">>

s_Reset_Link == <<"R","e","s","e","t"," ","L","i","n","k">>

s_bug_lower == <<"b","u","g","-","7">>

s_Bug_mixed == <<"B","u","g","-","7">>

s_Crash_on_save == <<"C","r","a","s","h"," ","o","n"," ","s","a","v","e">>

s_editor_crashes ==
    <<"T","h","e"," ","e","d","i","t","o","r"," ","c","r","a","s","h","e","s">>

s_crash == <<"c","r","a","s","h">>

s_Low == <<"L","o","w">>

s_PROJ_9999 == <<"P","R","O","J","-","9","9","9","9">>

s_Remote_issue == <<"R","e","m","o","t","e"," ","i","s","s","u","e">>

s_dev == <<"d","e","v">>

s_error == <<"e","r","r","o","r">>

s_proj_1001 == <<"p","r","o","j","-","1","0","0","1">>

s_hello == <<"h","e","l","l","o">>

s_status_of_proj_1001 ==
    <<"s","t","a","t","u","s"," ","o","f"," ","p","r","o","j","-","1","0","0","1">>

s_fix_PROJ_9999_reset ==
    <<"f","i","x"," ","P","R","O","J","-","9","9","9","9"," ","r","e","s","e","t">>

s_conv_a == <<"a">>

s_exit == <<"e","x","i","t">>

s_quit == <<"q","u","i","t">>

s_bye == <<"b","y","e">>

s_history == <<"h","i","s","t","o","r","y">>

s_conv_b == <<"b">>

s_status == <<"s","t","a","t","u","s">>

s_progress == <<"p","r","o","g","r","e","s","s">>

s_resolve == <<"r","e","s","o","l","v","e">>

s_fix == <<"f","i","x">>

s_issue == <<"i","s","s","u","e">>

(***************************************************************************)
(* The seeded tickets                                                      *)
(***************************************************************************)
id_1001 ==
    <<"P","R","O","J","-","1","0","0","1">>

title_1001 ==
    <<"U","n","a","b","l","e"," ","t","o"," ","l","o","g","i","n"," ","t","o"," ","a",
      "p","p","l","i","c","a","t","i","o","n">>

description_1001 ==
    <<"U","s","e","r"," ","i","s"," ","e","x","p","e","r","i","e","n","c","i","n","g",
      " ","l","o","g","i","n"," ","i","s","s","u","e","s"," ","w","i","t","h"," ","e",
      "r","r","o","r"," ","m","e","s","s","a","g","e"," ","'","I","n","v","a","l","i",
      "d"," ","c","r","e","d","e","n","t","i","a","l","s","'">>

status_1001 ==
    <<"O","p","e","n">>

priority_1001 ==
    <<"H","i","g","h">>

author_1001 ==
    <<"s","u","p","p","o","r","t","-","t","e","a","m">>

comment_1001 ==
    <<"P","l","e","a","s","e"," ","c","h","e","c","k"," ","i","f"," ","y","o","u","'",
      "r","e"," ","u","s","i","n","g"," ","t","h","e"," ","c","o","r","r","e","c","t",
      " ","p","a","s","s","w","o","r","d">>

id_1002 ==
    <<"P","R","O","J","-","1","0","0","2">>

title_1002 ==
    <<"F","e","a","t","u","r","e"," ","r","e","q","u","e","s","t",":"," ","A","d","d",
      " ","d","a","r","k"," ","m","o","d","e">>

description_1002 ==
    <<"C","u","s","t","o","m","e","r"," ","r","e","q","u","e","s","t","s"," ","d","a",
      "r","k"," ","m","o","d","e"," ","t","h","e","m","e"," ","f","o","r"," ","b","e",
      "t","t","e","r"," ","v","i","s","i","b","i","l","i","t","y">>

status_1002 ==
    <<"I","n"," ","P","r","o","g","r","e","s","s">>

priority_1002 ==
    <<"M","e","d","i","u","m">>

author_1002 ==
    <<"d","e","v","-","t","e","a","m">>

comment_1002 ==
    <<"D","a","r","k"," ","m","o","d","e"," ","i","s"," ","p","l","a","n","n","e","d",
      " ","f","o","r"," ","Q","2"," ","r","e","l","e","a","s","e">>

id_1003 ==
    <<"P","R","O","J","-","1","0","0","3">>

title_1003 ==
    <<"P","a","y","m","e","n","t"," ","p","r","o","c","e","s","s","i","n","g"," ","e",
      "r","r","o","r">>

description_1003 ==
    <<"T","r","a","n","s","a","c","t","i","o","n"," ","f","a","i","l","e","d"," ","w",
      "i","t","h"," ","e","r","r","o","r"," ","c","o","d","e"," ","5","0","0","."," ",
      "C","u","s","t","o","m","e","r"," ","u","n","a","b","l","e"," ","t","o"," ","c",
      "o","m","p","l","e","t","e"," ","p","u","r","c","h","a","s","e",".">>

status_1003 ==
    <<"R","e","s","o","l","v","e","d">>

priority_1003 ==
    <<"C","r","i","t","i","c","a","l">>

author_1003 ==
    <<"p","a","y","m","e","n","t","-","t","e","a","m">>

comment_1003 ==
    <<"I","s","s","u","e"," ","r","e","s","o","l","v","e","d","."," ","W","a","s"," ",
      "a"," ","t","e","m","p","o","r","a","r","y"," ","s","e","r","v","i","c","e"," ",
      "o","u","t","a","g","e",".">>

sample_tickets ==
    << Ticket(id_1001, title_1001, description_1001, status_1001, priority_1001,
              <<Comment(author_1001, comment_1001)>>),
       Ticket(id_1002, title_1002, description_1002, status_1002, priority_1002,
              <<Comment(author_1002, comment_1002)>>),
       Ticket(id_1003, title_1003, description_1003, status_1003, priority_1003,
              <<Comment(author_1003, comment_1003)>>) >>

(***************************************************************************)
(* Inputs: storage directories, ticket files, remote answers, arguments    *)
(***************************************************************************)
MaxArticles == 3

MaxRequested == 2

\* an article file written without a keywords list
stored_faq == Article(KBId(1), s_FAQ, s_eight_keywords, s_general, <<>>, <<>>)

\* an article file holding one JSON object
stored_password ==
    Article(KBId(2), s_Password, s_reset_link, s_auth, <<s_login>>,
            <<s_password_kw, s_reset, s_link>>)

\* what the storage directory may hold when the store is constructed
StorageDirs ==
    { <<>>,
      <<JsonList(<<stored_faq>>)>>,
      <<JsonDict(stored_password)>>,
      <<Unparseable, JsonList(<<stored_faq>>)>>,
      <<JsonList(<<stored_faq>>), JsonList(<<stored_faq>>)>> }

\* the configured similarity thresholds, in tenths (documented range 0 to 1)
Thresholds == {0, 7, 10}

\* add_article arguments: <<title, content, category, tags>>
ArticleInputs ==
    { <<s_Password, s_reset_link, s_auth, <<s_login>>>>,
      <<s_Login, s_pass_code, s_auth, <<>>>>,
      <<s_Reset_Link, s_reset, s_general, <<s_Password, s_Login>>>> }

Queries == {s_empty, s_pass, s_reset, s_Reset_Link, s_auth}

MaxResultsArgs == {NotGiven} \cup {Given(n) : n \in 0..MaxRequested}

\* two tickets whose identifiers differ only in letter case
ticket_bug_lower ==
    Ticket(s_bug_lower, s_Crash_on_save, s_editor_crashes, status_1001, s_Low, <<>>)

ticket_bug_mixed ==
    Ticket(s_Bug_mixed, s_Crash_on_save, s_editor_crashes, status_1001, s_Low, <<>>)

\* what data/tickets.json may hold before the retriever is constructed
ExistingTicketFiles ==
    { Absent,
      JsonList(<<ticket_bug_lower, ticket_bug_mixed>>),
      JsonList(<<>>),
      Unparseable }

JiraBody(status, assignee, comments) ==
    [key |-> s_PROJ_9999, summary |-> s_Remote_issue, description |-> s_editor_crashes,
     status |-> status, priority |-> s_Low, assignee |-> assignee, reporter |-> s_dev,
     comments |-> comments]

\* what the remote end may answer to the one request
RemoteAnswers ==
    { [kind |-> "exception"],
      Response(404, NoBody),
      Response(500, NoBody),
      Response(200, JiraBody(status_1001, s_dev, <<>>)),
      Response(200, JiraBody(status_1001, s_dev, <<[author |-> s_dev, body |-> s_crash]>>)),
      Response(200, JiraBody(Missing, Missing, <<>>)),
      Response(200, JiraBody(status_1001, NoneVal, <<>>)),
      Response(200, JiraBody(NoneVal, s_dev, <<>>)) }

CredentialSettings == [username : BOOLEAN, api_token : BOOLEAN]

\* the letters at odd positions in lower case, the others in upper case
alternate_case(id) ==
    AsTuple([i \in 1..Len(id) |-> IF i % 2 = 1 THEN lower_char(id[i]) ELSE upper_char(id[i])])

\* spellings of an identifier that differ in letter case only
CaseVariants(id) == {id, lower(id), upper(id), alternate_case(id)}

\* whitespace before and after an identifier
Paddings == {<<s_empty, s_empty>>, <<<<" ">>, s_empty>>, <<s_empty, <<" ">>>>,
             <<<<"\t", " ">>, <<" ", "\n">>>>}

\* the remote answers tried when the identifier is one of a stored ticket
VariantRemotes ==
    {r \in RemoteAnswers : r.kind = "exception" \/ r.body = JiraBody(status_1001, s_dev, <<>>)}

\* identifiers no input file holds
OtherTicketIds == {s_PROJ_9999, s_empty, <<" ">>}

s_error_today == <<"e","r","r","o","r"," ","t","o","d","a","y">>

TicketQueries ==
    {s_login, s_error, s_crash, s_proj_1001, s_empty, s_auth, s_error_today}

\* the queries customers send
AgentQueries == {s_hello, s_status_of_proj_1001, s_fix_PROJ_9999_reset}

\* the conversation_id argument of process_query: None, or a string
ConversationIds == {NoneVal, s_empty, s_conv_a}

\* what the remote end may answer while a query is processed
AgentRemotes ==
    { Response(200, JiraBody(status_1001, s_dev, <<[author |-> s_dev, body |-> s_crash]>>)),
      Response(200, JiraBody(status_1001, NoneVal, <<>>)) }

\* the articles of initialize_sample_knowledge_base; add_article takes their
\* title, content, category and tags
sample_articles == <<
    [title |->
        <<"H","o","w"," ","t","o"," ","R","e","s","e","t"," ","Y","o","u","r",
          " ","P","a","s","s","w","o","r","d">>,
     content |->
        <<"T","o"," ","r","e","s","e","t"," ","y","o","u","r"," ","p","a","s",
          "s","w","o","r","d",","," ","g","o"," ","t","o"," ","t","h","e"," ",
          "l","o","g","i","n"," ","p","a","g","e"," ","a","n","d"," ","c","l",
          "i","c","k"," ","'","F","o","r","g","o","t"," ","P","a","s","s","w",
          "o","r","d","'","."," ","E","n","t","e","r"," ","y","o","u","r"," ",
          "e","m","a","i","l"," ","a","d","d","r","e","s","s"," ","a","n","d",
          " ","c","h","e","c","k"," ","y","o","u","r"," ","i","n","b","o","x",
          " ","f","o","r"," ","a"," ","p","a","s","s","w","o","r","d"," ","r",
          "e","s","e","t"," ","l","i","n","k","."," ","C","l","i","c","k"," ",
          "t","h","e"," ","l","i","n","k"," ","a","n","d"," ","f","o","l","l",
          "o","w"," ","t","h","e"," ","i","n","s","t","r","u","c","t","i","o",
          "n","s"," ","t","o"," ","c","r","e","a","t","e"," ","a"," ","n","e",
          "w"," ","p","a","s","s","w","o","r","d",".">>,
     category |-> <<"a","u","t","h","e","n","t","i","c","a","t","i","o","n">>,
     tags |-> <<<<"p","a","s","s","w","o","r","d">>,
              <<"l","o","g","i","n">>,
              <<"r","e","s","e","t">>,
              <<"a","u","t","h","e","n","t","i","c","a","t","i","o","n">>>>],
    [title |->
        <<"T","r","o","u","b","l","e","s","h","o","o","t","i","n","g"," ","L",
          "o","g","i","n"," ","I","s","s","u","e","s">>,
     content |->
        <<"I","f"," ","y","o","u","'","r","e"," ","e","x","p","e","r","i","e",
          "n","c","i","n","g"," ","l","o","g","i","n"," ","i","s","s","u","e",
          "s",","," ","f","i","r","s","t"," ","c","h","e","c","k"," ","t","h",
          "a","t"," ","y","o","u","'","r","e"," ","u","s","i","n","g"," ","t",
          "h","e"," ","c","o","r","r","e","c","t"," ","u","s","e","r","n","a",
          "m","e"," ","a","n","d"," ","p","a","s","s","w","o","r","d","."," ",
          "C","l","e","a","r"," ","y","o","u","r"," ","b","r","o","w","s","e",
          "r"," ","c","a","c","h","e"," ","a","n","d"," ","c","o","o","k","i",
          "e","s",","," ","t","h","e","n"," ","t","r","y"," ","a","g","a","i",
          "n","."," ","I","f"," ","t","h","e"," ","p","r","o","b","l","e","m",
          " ","p","e","r","s","i","s","t","s",","," ","e","n","s","u","r","e",
          " ","y","o","u","r"," ","a","c","c","o","u","n","t"," ","i","s"," ",
          "n","o","t"," ","l","o","c","k","e","d","."," ","C","o","n","t","a",
          "c","t"," ","s","u","p","p","o","r","t"," ","i","f"," ","i","s","s",
          "u","e","s"," ","c","o","n","t","i","n","u","e",".">>,
     category |-> <<"a","u","t","h","e","n","t","i","c","a","t","i","o","n">>,
     tags |-> <<<<"l","o","g","i","n">>,
              <<"t","r","o","u","b","l","e","s","h","o","o","t","i","n","g">>,
              <<"e","r","r","o","r">>,
              <<"a","u","t","h","e","n","t","i","c","a","t","i","o","n">>>>],
    [title |->
        <<"P","a","y","m","e","n","t"," ","P","r","o","c","e","s","s","i","n",
          "g"," ","G","u","i","d","e">>,
     content |->
        <<"T","o"," ","p","r","o","c","e","s","s"," ","a"," ","p","a","y","m",
          "e","n","t",","," ","s","e","l","e","c","t"," ","t","h","e"," ","p",
          "a","y","m","e","n","t"," ","m","e","t","h","o","d"," ","a","n","d",
          " ","e","n","t","e","r"," ","y","o","u","r"," ","c","a","r","d"," ",
          "d","e","t","a","i","l","s","."," ","E","n","s","u","r","e"," ","a",
          "l","l"," ","i","n","f","o","r","m","a","t","i","o","n"," ","i","s",
          " ","c","o","r","r","e","c","t"," ","b","e","f","o","r","e"," ","s",
          "u","b","m","i","t","t","i","n","g","."," ","F","o","r"," ","f","a",
          "i","l","e","d"," ","t","r","a","n","s","a","c","t","i","o","n","s",
          ","," ","c","h","e","c","k"," ","y","o","u","r"," ","c","a","r","d",
          " ","d","e","t","a","i","l","s"," ","a","n","d"," ","a","c","c","o",
          "u","n","t"," ","b","a","l","a","n","c","e","."," ","C","o","n","t",
          "a","c","t"," ","y","o","u","r"," ","b","a","n","k"," ","i","f"," ",
          "i","s","s","u","e","s"," ","p","e","r","s","i","s","t",".">>,
     category |-> <<"p","a","y","m","e","n","t","s">>,
     tags |-> <<<<"p","a","y","m","e","n","t">>,
              <<"t","r","a","n","s","a","c","t","i","o","n">>,
              <<"c","a","r","d">>,
              <<"b","i","l","l","i","n","g">>>>],
    [title |->
        <<"U","n","d","e","r","s","t","a","n","d","i","n","g"," ","E","r","r",
          "o","r"," ","C","o","d","e"," ","5","0","0">>,
     content |->
        <<"E","r","r","o","r"," ","c","o","d","e"," ","5","0","0"," ","i","n",
          "d","i","c","a","t","e","s"," ","a","n"," ","i","n","t","e","r","n",
          "a","l"," ","s","e","r","v","e","r"," ","e","r","r","o","r","."," ",
          "T","h","i","s"," ","i","s"," ","t","y","p","i","c","a","l","l","y",
          " ","a"," ","t","e","m","p","o","r","a","r","y"," ","i","s","s","u",
          "e"," ","o","n"," ","o","u","r"," ","e","n","d","."," ","P","l","e",
          "a","s","e"," ","w","a","i","t"," ","a"," ","f","e","w"," ","m","i",
          "n","u","t","e","s"," ","a","n","d"," ","t","r","y"," ","a","g","a",
          "i","n","."," ","I","f"," ","t","h","e"," ","e","r","r","o","r"," ",
          "p","e","r","s","i","s","t","s",","," ","i","t"," ","m","a","y"," ",
          "i","n","d","i","c","a","t","e"," ","a"," ","s","e","r","v","i","c",
          "e"," ","o","u","t","a","g","e","."," ","C","h","e","c","k"," ","o",
          "u","r"," ","s","t","a","t","u","s"," ","p","a","g","e"," ","f","o",
          "r"," ","u","p","d","a","t","e","s",".">>,
     category |-> <<"e","r","r","o","r","s">>,
     tags |-> <<<<"e","r","r","o","r">>,
              <<"5","0","0">>,
              <<"s","e","r","v","e","r">>,
              <<"t","r","o","u","b","l","e","s","h","o","o","t","i","n","g">>>>],
    [title |->
        <<"A","c","c","o","u","n","t"," ","A","c","t","i","v","a","t","i","o",
          "n"," ","P","r","o","c","e","s","s">>,
     content |->
        <<"A","f","t","e","r"," ","c","r","e","a","t","i","n","g"," ","a","n",
          " ","a","c","c","o","u","n","t",","," ","c","h","e","c","k"," ","y",
          "o","u","r"," ","e","m","a","i","l"," ","f","o","r"," ","a","n"," ",
          "a","c","t","i","v","a","t","i","o","n"," ","l","i","n","k","."," ",
          "C","l","i","c","k"," ","t","h","e"," ","l","i","n","k"," ","t","o",
          " ","a","c","t","i","v","a","t","e"," ","y","o","u","r"," ","a","c",
          "c","o","u","n","t","."," ","I","f"," ","y","o","u"," ","d","o","n",
          "'","t"," ","r","e","c","e","i","v","e"," ","t","h","e"," ","e","m",
          "a","i","l",","," ","c","h","e","c","k"," ","y","o","u","r"," ","s",
          "p","a","m"," ","f","o","l","d","e","r","."," ","Y","o","u"," ","c",
          "a","n"," ","r","e","q","u","e","s","t"," ","a"," ","n","e","w"," ",
          "a","c","t","i","v","a","t","i","o","n"," ","l","i","n","k"," ","f",
          "r","o","m"," ","t","h","e"," ","l","o","g","i","n"," ","p","a","g",
          "e",".">>,
     category |-> <<"a","c","c","o","u","n","t">>,
     tags |-> <<<<"a","c","c","o","u","n","t">>,
              <<"a","c","t","i","v","a","t","i","o","n">>,
              <<"e","m","a","i","l">>,
              <<"r","e","g","i","s","t","r","a","t","i","o","n">>>>] >>

s_password_reset ==
    <<"p","a","s","s","w","o","r","d"," ","r","e","s","e","t">>

s_How_to_Reset_Your_Password ==
    <<"H","o","w"," ","t","o"," ","R","e","s","e","t"," ","Y","o","u","r"," ",
      "P","a","s","s","w","o","r","d">>

\* the queries sent to the seeded store
SampleQueries ==
    { s_password_reset,
      <<"l","o","g","i","n"," ","i","s","s","u","e","s">>,
      <<"p","a","y","m","e","n","t">>,
      <<"e","r","r","o","r"," ","5","0","0">>,
      <<"a","c","t","i","v","a","t","e"," ","a","c","c","o","u","n","t">>,
      <<"s","e","r","v","e","r"," ","e","r","r","o","r">>,
      <<"e","m","a","i","l"," ","l","i","n","k">>,
      <<"c","h","e","c","k">>,
      <<"u","n","r","e","l","a","t","e","d"," ","w","o","r","d","s">>,
      <<"P","a","s","s","w","o","r","d">>,
      <<"H","o","w"," ","d","o"," ","I"," ","r","e","s","e","t"," ","m","y",
        " ","p","a","s","s","w","o","r","d","?">>,
      <<"I"," ","g","o","t"," ","a","n"," ","e","r","r","o","r"," ","c","o",
        "d","e"," ","5","0","0","."," ","W","h","a","t"," ","s","h","o","u",
        "l","d"," ","I"," ","d","o","?">> }

\* the length of the generated texts
MaxTextLen == 4

s_no_ticket_here == <<"n","o"," ","t","i","c","k","e","t"," ","h","e","r","e">>

s_whats_the_status ==
    <<"W","h","a","t","'","s"," ","t","h","e"," ","s","t","a","t","u","s"," ","o","f"," ","t","i","c","k","e","t"," ","P","R","O","J","-","1","0","0","1","?">>

\* every text of at most MaxTextLen characters over the alphabet
TextsOver(alphabet) ==
    UNION {{AsTuple(f) : f \in [1..k -> alphabet]} : k \in 0..MaxTextLen}

\* the texts a ticket reference is looked for in
ReferenceTexts ==
    TextsOver({"p", "J", "-", "1", "#", " "})
    \cup { s_no_ticket_here, s_whats_the_status, s_status_of_proj_1001,
            s_fix_PROJ_9999_reset,
            <<"t","i","c","k","e","t","-","4","2">>,
            <<"s","e","e"," ","#","T","i","c","k","e","t","-","7"," ","n","o","w">>,
            <<"#","7","8","9">>,
            <<"#","1","2"," ","t","h","e","n"," ","p","r","o","j","-","5">>,
            <<"a","-","b","-","3","#","4">>,
            <<"#","-","1"," ","x","1","-","#","2">> }

\* the number of words of the generated texts
MaxWords == 4

Vocabulary ==
    { <<"t","h","e">>, <<"C","a","t">>, <<"c","a","t">>, <<"d","o","g">>,
      <<"r","2","_","d","2">>, <<"a","b">> }

\* every text of at most MaxWords words of the vocabulary, joined by spaces
WordTexts ==
    UNION {{JoinSpace(AsTuple(f)) : f \in [1..k -> Vocabulary]} : k \in 0..MaxWords}

\* the texts keywords are extracted from
KeywordTexts ==
    WordTexts
    \cup { <<"C","a","t",","," ","c","a","t","!"," ","d","o","g",".",".","."," ","t","h","e"," ","D","O","G">>,
           <<"i","t","'","s"," ","a"," ","r","e","-","s","e","t",":"," ","s","e","t"," ","i","t">>,
           <<" ","\t","\n">>,
           s_whats_the_status,
           sample_articles[1].title \o <<" ">> \o sample_articles[1].content }

\* the texts compared with one another
SimilarityTexts ==
    { s_empty, s_password_reset, s_How_to_Reset_Your_Password,
      <<"t","h","e"," ","i","s"," ","a","t">>, <<"a","b"," ","c","d">>, <<"c","a","t">>,
      <<"C","a","t"," ","d","o","g">>, <<"d","o","g"," ","c","a","t"," ","c","a","t">>,
      <<"c","a","t",","," ","d","o","g",";"," ","b","i","r","d">>,
      <<"b","i","r","d"," ","c","a","t"," ","f","i","s","h">> }

\* the arguments of the calls to the text utilities
TextArgs ==
    {<<t>> : t \in ReferenceTexts \cup KeywordTexts}
    \cup (SimilarityTexts \X SimilarityTexts)

\* the queries of demo_queries, and queries that more than three articles
\* answer
DemoQueries ==
    { s_whats_the_status,
      <<"I","'","m"," ","h","a","v","i","n","g"," ","l","o","g","i","n"," ",
        "i","s","s","u","e","s","."," ","C","a","n"," ","y","o","u"," ","h",
        "e","l","p","?">>,
      <<"T","e","l","l"," ","m","e"," ","a","b","o","u","t"," ","P","R","O",
        "J","-","1","0","0","2">>,
      <<"I"," ","g","o","t"," ","a","n"," ","e","r","r","o","r"," ","c","o",
        "d","e"," ","5","0","0","."," ","W","h","a","t"," ","s","h","o","u",
        "l","d"," ","I"," ","d","o","?">>,
      <<"H","o","w"," ","d","o"," ","I"," ","r","e","s","e","t"," ","m","y",
        " ","p","a","s","s","w","o","r","d","?">>,
      <<"c","h","e","c","k"," ","P","R","O","J","-","1","0","0","1"," ","p",
        "l","e","a","s","e">>,
      <<"c","h","e","c","k"," ","P","R","O","J","-","9","9","9","9">>,
      <<"c","h","e","c","k">> }

\* article contents around the 300 characters _generate_response shows
content_of_length(n) == AsTuple([i \in 1..n |-> "x"])

s_guide == <<"g","u","i","d","e">>

ContentLengths == <<299, 300, 301, 5>>

\* a store of articles on one subject whose contents differ in length
guide_articles ==
    AsTuple([i \in 1..Len(ContentLengths) |->
        [title |-> s_guide, content |-> content_of_length(ContentLengths[i]),
         category |-> s_general, tags |-> <<>>]])

\* the words of a query that _create_contextual_response looks for
RemarkWords ==
    { <<>>, <<s_status>>, <<s_progress>>, <<s_resolve>>, <<s_fix>>, <<s_error>>,
      <<s_issue>>, <<s_status, s_fix>>, <<s_progress, s_status>>,
      <<s_progress, s_error>>, <<s_issue, s_resolve>>, <<s_hello>> }

\* the ticket a query refers to: none, a seeded ticket, a ticket without
\* comments, a ticket no source holds
QueryReferences == {<<>>, <<s_proj_1001>>, <<s_bug_lower>>, <<s_PROJ_9999>>}

\* the queries whose answers are composed
ComposeQueries ==
    { JoinSpace(w \o r \o g) :
          w \in RemarkWords, r \in QueryReferences, g \in {<<>>, <<s_guide>>} }

MaxHistory == 2

MaxClock == 2

(***************************************************************************)
(* TextProcessor: similarity                                               *)
(***************************************************************************)
\* The texts the model's inputs are made of, and their keywords: TLC evaluates
\* a constant once, so extract_keywords runs once per known text.  Any other
\* text is computed on the spot.
KnownTexts ==
    Queries \cup TicketQueries \cup AgentQueries
    \cup {a[1] \o <<" ">> \o a[2] : a \in ArticleInputs}
    \cup {a.title \o <<" ">> \o a.content : a \in {stored_faq, stored_password}}
    \cup {a.title \o <<" ">> \o a.content : a \in Range(sample_articles)}
    \cup SampleQueries
    \cup DemoQueries
    \cup ComposeQueries
    \cup {a.title \o <<" ">> \o a.content : a \in Range(guide_articles)}
    \cup {lower(t.title) \o <<" ">> \o lower(t.description) :
              t \in Range(sample_tickets) \cup {ticket_bug_lower, ticket_bug_mixed}}

keywords_table == {<<t, extract_keywords(t)>> : t \in KnownTexts}

keywords_of(text) ==
    IF \E e \in keywords_table : e[1] = text
    THEN (CHOOSE e \in keywords_table : e[1] = text)[2]
    ELSE extract_keywords(text)

\* the share of the first text's words that the second text has
overlap_of_first(words1, words2) ==
    IF words1 = {} \/ words2 = {} THEN Rat(0, 1)
    ELSE Rat(Cardinality(words1 \cap words2), Cardinality(words1))

\* TextProcessor.calculate_similarity(text1, text2)
jaccard(words1, words2) ==
    IF words1 = {} \/ words2 = {} THEN Rat(0, 1)
    ELSE Rat(Cardinality(words1 \cap words2), Cardinality(words1 \cup words2))

calculate_similarity(text1, text2) ==
    jaccard(Range(keywords_of(text1)), Range(keywords_of(text2)))

(***************************************************************************)
(* KnowledgeBase                                                           *)
(***************************************************************************)
MAX_SEARCH_RESULTS == 5

\* a loading that gives up at the first file that fails to load
RECURSIVE load_until_malformed(_)
load_until_malformed(files) ==
    IF files = <<>> THEN <<>>
    ELSE IF Head(files).kind = "malformed" THEN <<>>
    ELSE (IF Head(files).kind = "list" THEN Head(files).items ELSE <<Head(files).item>>)
         \o load_until_malformed(Tail(files))

\* KnowledgeBase._load_articles over the files of the storage directory, in
\* glob order: a JSON list extends the collection, a JSON object is appended,
\* any other JSON value is ignored, a file that fails to load is skipped.
RECURSIVE load_articles(_)
load_articles(files) ==
    IF files = <<>> THEN <<>>
    ELSE LET f == Head(files)
             got == CASE f.kind = "list" -> f.items
                      [] f.kind = "dict" -> <<f.item>>
                      [] OTHER -> <<>>
         IN  got \o load_articles(Tail(files))

\* KnowledgeBase.add_article: the collection after the call
add_article(arts, title, content, category, tags) ==
    Append(arts, Article(KBId(Len(arts) + 1), title, content, category, tags,
                         keywords_of(title \o <<" ">> \o content)))

\* initialize_sample_knowledge_base(kb): add_article for each sample article,
\* in order
RECURSIVE add_all(_, _)
add_all(arts, samples) ==
    IF samples = <<>> THEN arts
    ELSE add_all(add_article(arts, Head(samples).title, Head(samples).content,
                             Head(samples).category, Head(samples).tags),
                 Tail(samples))

initialize_sample_knowledge_base(arts) == add_all(arts, sample_articles)

\* a keyword matching that adds nothing to the score
no_keyword_score(query_keywords, article_keywords) == Rat(0, 1)

\* len(query_keywords & article_keywords) / max(len(query_keywords), 1), or 0
\* when either set is empty
keyword_score(query_keywords, article_keywords) ==
    IF query_keywords # {} /\ article_keywords # {}
    THEN Rat(Cardinality(query_keywords \cap article_keywords),
             IF Cardinality(query_keywords) > 1 THEN Cardinality(query_keywords) ELSE 1)
    ELSE Rat(0, 1)

\* the substring matches on title, tags and category
substring_bonus(article, query_lower) ==
    LET article_tags == AsTuple([i \in 1..Len(article.tags) |-> lower(article.tags[i])])
    IN  (IF Contains(query_lower, lower(article.title)) THEN 10 ELSE 0)
        + (IF Contains(query_lower, JoinSpace(article_tags)) THEN 2 ELSE 0)
        + (IF Contains(query_lower, lower(article.category)) THEN 1 ELSE 0)

\* a scoring that looks for the query as a substring only
substring_score_only(article, query) ==
    Rat(substring_bonus(article, lower(query)), 1)

\* the relevance score KnowledgeBase.search gives one article
relevance_score(article, query) ==
    RatAdd(RatAdd(Rat(substring_bonus(article, lower(query)), 1),
                  RatScale(5, calculate_similarity(
                                  query, article.title \o <<" ">> \o article.content))),
           RatScale(3, keyword_score(Range(keywords_of(query)), Range(article.keywords))))

\* max_results or Config.MAX_SEARCH_RESULTS
effective_max_results(max_results) ==
    IF max_results = NotGiven \/ max_results[1] = 0
    THEN MAX_SEARCH_RESULTS
    ELSE max_results[1]

\* results scored above zero, as sort entries, in collection order
scored_results(arts, query) ==
    LET all == AsTuple([i \in 1..Len(arts) |->
                   [key |-> relevance_score(arts[i], query),
                    val |-> [article |-> arts[i], position |-> i]]])
    IN  SelectSeq(all, LAMBDA r : RatPos(r.key))

\* a search that filters nothing
keep_all(results) == results

\* the threshold filter of KnowledgeBase.search
filter_by_threshold(results) ==
    SelectSeq(results, LAMBDA r : RatGeq(r.key, Rat(SIMILARITY_THRESHOLD, 10)))

\* KnowledgeBase.search(query, max_results): each result is the article's copy,
\* with its relevance_score and (for reference) its position in the collection
article_results(out) ==
    AsTuple([i \in 1..Len(out) |->
        [article |-> out[i].val.article, position |-> out[i].val.position,
         relevance_score |-> out[i].key]])

\* a search that scores the articles whatever the query is
search_any_query(arts, query, max_results) ==
    article_results(
        SliceTo(filter_by_threshold(SortDesc(scored_results(arts, query))),
                effective_max_results(max_results)))

search(arts, query, max_results) ==
    IF query = <<>> THEN <<>>
    ELSE article_results(
             SliceTo(filter_by_threshold(SortDesc(scored_results(arts, query))),
                     effective_max_results(max_results)))

\* a scoring that writes relevance_score into the stored article
scored_in_place(article, score) ==
    [f \in DOMAIN article \cup {"relevance_score"} |->
        IF f = "relevance_score" THEN score ELSE article[f]]

\* the stored article after search scored it: article.copy() takes the score
stored_after_scoring(article, score) == article

\* self._articles after KnowledgeBase.search(query)
store_after_search(arts, query) ==
    IF query = <<>> THEN arts
    ELSE AsTuple([i \in 1..Len(arts) |->
             IF RatPos(relevance_score(arts[i], query))
             THEN stored_after_scoring(arts[i], relevance_score(arts[i], query))
             ELSE arts[i]])

\* a get_all_articles that hands out the list of the store
get_all_articles_no_copy(arts) == [items |-> arts, list_of_store |-> TRUE]

\* KnowledgeBase.get_all_articles: a new list of the stored articles
get_all_articles(arts) == [items |-> arts, list_of_store |-> FALSE]

\* KnowledgeBase.get_article_by_id(article_id)
get_article_by_id(arts, article_id) ==
    IF \E i \in 1..Len(arts) : arts[i].id = article_id
    THEN arts[CHOOSE i \in 1..Len(arts) :
                  arts[i].id = article_id /\ \A j \in 1..(i - 1) : arts[j].id # article_id]
    ELSE NoneVal

\* how many articles the loop of KnowledgeBase.search scored
articles_scored(arts, query) ==
    IF query = <<>> THEN 0 ELSE Len(arts)

(***************************************************************************)
(* TicketRetriever                                                         *)
(***************************************************************************)
\* TicketRetriever._initialize_local_tickets: the file after construction
initialize_local_tickets(existing) ==
    IF existing.kind = "absent" THEN JsonList(sample_tickets) ELSE existing

\* the loop of _get_ticket_from_local; an identifier that is null makes
\* .upper() raise, which the method's except clause turns into None
RECURSIVE scan_local(_, _)
scan_local(items, ticket_id) ==
    IF items = <<>> THEN Absent
    ELSE IF Head(items).id = NoneVal THEN Absent
    ELSE IF upper(Head(items).id) = ticket_id THEN Found(Head(items))
    ELSE scan_local(Tail(items), ticket_id)

\* TicketRetriever._get_ticket_from_local(ticket_id)
get_ticket_from_local(file, ticket_id) ==
    IF file.kind = "list" THEN scan_local(file.items, ticket_id) ELSE Absent

\* d.get(name, {}).get(sub, ""): a missing field gives "", a null field raises
NestedGet(field) ==
    IF field = Missing THEN <<>> ELSE field

\* TicketRetriever._transform_jira_response(jira_data)
transform_jira_response(body) ==
    IF \/ NoneVal \in {body.status, body.priority, body.assignee, body.reporter}
       \/ \E i \in 1..Len(body.comments) : body.comments[i].author = NoneVal
    THEN Raised("AttributeError")
    ELSE Found(Ticket(body.key, body.summary, body.description,
                      NestedGet(body.status), NestedGet(body.priority),
                      AsTuple([i \in 1..Len(body.comments) |->
                          Comment(NestedGet(body.comments[i].author),
                                  body.comments[i].body)])))

\* a fetch that sends the request whatever the credentials are
fetch_without_credentials(creds, remote, ticket_id) ==
    [requested |-> TRUE,
     out |-> IF remote.kind = "response" /\ remote.status_code = 200
             THEN transform_jira_response(remote.body) ELSE Absent]

\* TicketRetriever._fetch_ticket_from_api(ticket_id): whether the request was
\* sent, and what the method returned or raised
fetch_ticket_from_api(creds, remote, ticket_id) ==
    IF ~creds.username \/ ~creds.api_token
    THEN [requested |-> FALSE, out |-> Absent]
    ELSE [requested |-> TRUE,
          out |-> CASE remote.kind = "exception" -> Absent
                    [] remote.kind = "response" /\ remote.status_code = 200 ->
                           transform_jira_response(remote.body)
                    [] OTHER -> Absent]

\* TicketRetriever.get_ticket(ticket_id): the result and the lookups made
get_ticket(file, creds, remote, ticket_id) ==
    LET cleaned == upper(clean_text(ticket_id))
        local   == get_ticket_from_local(file, cleaned)
    IN  IF local.kind = "ticket"
        THEN [result |-> local, trace |-> <<"local">>]
        ELSE LET api == fetch_ticket_from_api(creds, remote, cleaned)
             IN  [result |-> api.out,
                  trace  |-> <<"local">> \o
                             (IF api.requested THEN <<"remote">> ELSE <<>>)]

\* the match score TicketRetriever.search_tickets gives one ticket
match_bonus(query_lower, title, description, ticket_id) ==
    (IF Contains(query_lower, ticket_id) THEN 10 ELSE 0)
    + (IF Contains(query_lower, title) THEN 5 ELSE 0)
    + (IF Contains(query_lower, description) THEN 2 ELSE 0)

match_score(ticket, query) ==
    RatAdd(Rat(match_bonus(lower(query), lower(ticket.title), lower(ticket.description),
                           lower(ticket.id)), 1),
           RatScale(3, calculate_similarity(
                           query, lower(ticket.title) \o <<" ">> \o lower(ticket.description))))

\* tickets scored at or above the similarity threshold of the article search
scored_tickets_above_threshold(items, query) ==
    LET all == AsTuple([i \in 1..Len(items) |->
                   [key |-> match_score(items[i], query),
                    val |-> [ticket |-> items[i], position |-> i]]])
    IN  SelectSeq(all, LAMBDA r : RatGeq(r.key, Rat(SIMILARITY_THRESHOLD, 10)))

\* tickets scored above zero, as sort entries, in file order
scored_tickets(items, query) ==
    LET all == AsTuple([i \in 1..Len(items) |->
                   [key |-> match_score(items[i], query),
                    val |-> [ticket |-> items[i], position |-> i]]])
    IN  SelectSeq(all, LAMBDA r : RatPos(r.key))

ticket_results(out) ==
    AsTuple([i \in 1..Len(out) |->
        [ticket |-> out[i].val.ticket, position |-> out[i].val.position,
         match_score |-> out[i].key]])

\* TicketRetriever.search_tickets(query, max_results); a file that cannot be
\* read, or a ticket whose identifier is null, ends in the except clause
search_tickets(file, query, max_results) ==
    IF file.kind # "list" THEN <<>>
    ELSE IF \E i \in 1..Len(file.items) : file.items[i].id = NoneVal THEN <<>>
    ELSE ticket_results(SliceTo(SortDesc(scored_tickets(file.items, query)), max_results))

(***************************************************************************)
(* CustomerSupportAgent                                                    *)
(***************************************************************************)
\* one element of response_parts: which line it is, and the text put in it
Part(name, text) == [part |-> name, text |-> text]

Blank == Part("blank", <<>>)

\* the empty string _create_contextual_response may return
NoContext == Part("none", <<>>)

\* the last element of a non-empty list
Last(items) == items[Len(items)]

\* comments[-2:]
LastTwo(comments) ==
    SubSeq(comments, IF Len(comments) > 2 THEN Len(comments) - 1 ELSE 1, Len(comments))

\* a contextual response that looks for "resolve" and "fix" before "status"
\* and "progress"
solution_before_status(query_lower, ticket_details, knowledge_results) ==
    IF Contains(s_resolve, query_lower) \/ Contains(s_fix, query_lower)
    THEN IF knowledge_results # <<>>
         THEN Part("solution", SliceTo(knowledge_results[1].article.content, 200))
         ELSE Part("looking_into_solutions", <<>>)
    ELSE IF Contains(s_status, query_lower) /\ ticket_details.kind = "ticket"
    THEN Part("status", ticket_details.ticket.status)
    ELSE IF /\ Contains(s_progress, query_lower)
            /\ ticket_details.kind = "ticket"
            /\ ticket_details.ticket.comments # <<>>
    THEN Part("progress", SliceTo(Last(ticket_details.ticket.comments).body, 200))
    ELSE IF /\ Contains(s_error, query_lower) \/ Contains(s_issue, query_lower)
            /\ ticket_details.kind = "ticket"
    THEN Part("issue", SliceTo(ticket_details.ticket.description, 200))
    ELSE IF knowledge_results # <<>>
    THEN Part("generic", <<>>)
    ELSE NoContext

\* CustomerSupportAgent._create_contextual_response
create_contextual_response(query_lower, ticket_details, knowledge_results) ==
    IF Contains(s_status, query_lower) /\ ticket_details.kind = "ticket"
    THEN Part("status", ticket_details.ticket.status)
    ELSE IF /\ Contains(s_progress, query_lower)
            /\ ticket_details.kind = "ticket"
            /\ ticket_details.ticket.comments # <<>>
    THEN Part("progress", SliceTo(Last(ticket_details.ticket.comments).body, 200))
    ELSE IF Contains(s_resolve, query_lower) \/ Contains(s_fix, query_lower)
    THEN IF knowledge_results # <<>>
         THEN Part("solution", SliceTo(knowledge_results[1].article.content, 200))
         ELSE Part("looking_into_solutions", <<>>)
    ELSE IF /\ Contains(s_error, query_lower) \/ Contains(s_issue, query_lower)
            /\ ticket_details.kind = "ticket"
    THEN Part("issue", SliceTo(ticket_details.ticket.description, 200))
    ELSE IF knowledge_results # <<>>
    THEN Part("generic", <<>>)
    ELSE NoContext

\* the ticket block of _generate_response
ticket_parts(ticket) ==
    <<Part("ticket_header", <<>>), Part("ticket_id", ticket.id),
      Part("ticket_title", ticket.title), Part("ticket_status", ticket.status),
      Part("ticket_priority", ticket.priority)>>
    \o (IF ticket.description # <<>>
        THEN <<Part("ticket_description", ticket.description)>> ELSE <<>>)
    \o (IF ticket.comments # <<>>
        THEN <<Part("updates_header", <<>>)>>
             \o AsTuple([i \in 1..Len(LastTwo(ticket.comments)) |->
                    [part |-> "update", author |-> LastTwo(ticket.comments)[i].author,
                     text |-> SliceTo(LastTwo(ticket.comments)[i].body, 200)]])
        ELSE <<>>)
    \o <<Blank>>

\* the lines _generate_response writes for the result idx
article_parts(idx, result) ==
    <<[part |-> "article_title", idx |-> idx, text |-> result.article.title,
       category |-> result.article.category],
      Part("article_content", SliceTo(result.article.content, 300))>>
    \o (IF Len(SliceTo(result.article.content, 300)) >= 300
        THEN <<Part("ellipsis", <<>>)>> ELSE <<>>)

RECURSIVE articles_parts(_, _)
articles_parts(idx, results) ==
    IF results = <<>> THEN <<>>
    ELSE article_parts(idx, Head(results)) \o articles_parts(idx + 1, Tail(results))

\* the lines for the contextual response
context_parts(contextual_response) ==
    IF contextual_response # NoContext
    THEN <<Part("query_header", <<>>), contextual_response>> ELSE <<>>

\* a response that greets whatever the history holds
always_greeting(history) == <<Part("greeting", <<>>), Blank>>

\* the greeting at the beginning of a conversation
greeting_parts(history) ==
    IF Len(history) = 0 THEN <<Part("greeting", <<>>), Blank>> ELSE <<>>

\* a fallback that looks at the ticket only
nothing_found_without_ticket(ticket_details, knowledge_results) ==
    IF ticket_details.kind # "ticket" THEN <<Part("nothing_found", <<>>)>> ELSE <<>>

\* the sentence asking for more detail when no relevant information was found
nothing_found_parts(ticket_details, knowledge_results) ==
    IF ticket_details.kind # "ticket" /\ knowledge_results = <<>>
    THEN <<Part("nothing_found", <<>>)>> ELSE <<>>

\* CustomerSupportAgent._generate_response: response_parts, the lines that
\* "\n".join makes the response of
generate_response(history, user_query, ticket_details, knowledge_results) ==
    greeting_parts(history)
    \o (IF ticket_details.kind = "ticket" THEN ticket_parts(ticket_details.ticket) ELSE <<>>)
    \o (IF knowledge_results # <<>>
        THEN <<Part("articles_header", <<>>)>>
             \o articles_parts(1, SliceTo(knowledge_results, 3)) \o <<Blank>>
        ELSE <<>>)
    \o context_parts(create_contextual_response(
                         lower(user_query), ticket_details, knowledge_results))
    \o nothing_found_parts(ticket_details, knowledge_results)
    \o <<Part("rule", <<>>), Part("closing", <<>>)>>

\* one decimal digit, and str() of a number below 100
digit(d) == <<"0","1","2","3","4","5","6","7","8","9">>[d + 1]

decimal(number) ==
    IF number < 10 THEN <<digit(number)>>
    ELSE <<digit(number \div 10), digit(number % 10)>>

\* f"conv-{datetime.now().timestamp()}" at a clock reading of whole seconds
generated_conversation_id(clock) ==
    <<"c","o","n","v","-">> \o decimal(clock) \o <<".","0">>

\* conversation_id or f"conv-{...}"
conversation_id_or_generated(conversation_id, clock) ==
    IF conversation_id = NoneVal \/ conversation_id = <<>>
    THEN generated_conversation_id(clock) ELSE conversation_id

\* the sources process_query lists: the ticket, then the first three articles
ticket_source(ticket_ref, ticket_details) ==
    IF ticket_details.kind = "ticket"
    THEN <<[type |-> "ticket", id |-> ticket_ref, title |-> ticket_details.ticket.title]>>
    ELSE <<>>

\* the article sources, last result first
article_sources_reversed(results) ==
    AsTuple([i \in 1..Len(results) |->
        [type |-> "knowledge_base", id |-> results[Len(results) + 1 - i].article.id,
         title |-> results[Len(results) + 1 - i].article.title]])

article_sources(results) ==
    AsTuple([i \in 1..Len(results) |->
        [type |-> "knowledge_base", id |-> results[i].article.id,
         title |-> results[i].article.title]])

\* step 1 of process_query: the ticket the query refers to
referenced_ticket(file, creds, remote, ticket_ref) ==
    IF ticket_ref # <<>> THEN get_ticket(file, creds, remote, ticket_ref).result ELSE Absent

\* what process_query returns and the entry it appends, given the data it
\* gathered and the response it composed
query_result(clock, user_query, conv_id, ticket_ref, ticket_details, results, response) ==
    [raised |-> FALSE,
     response_data |->
        [response |-> response,
         ticket_details |-> ticket_details,
         knowledge_base_results |-> SliceTo(results, 3),
         conversation_id |-> conv_id,
         timestamp |-> clock,
         sources |-> ticket_source(ticket_ref, ticket_details)
                     \o article_sources(SliceTo(results, 3))],
     entry |->
        [timestamp |-> clock,
         user_query |-> user_query,
         agent_response |-> response,
         ticket_reference |-> ticket_ref,
         conversation_id |-> conv_id]]

\* steps 2 to 4 of process_query, with the ticket looked up: a lookup that
\* raised ends the call
answer_query(arts, history, clock, user_query, conversation_id, ticket_ref, ticket_details) ==
    IF ticket_details.kind = "raised"
    THEN [raised |-> TRUE, error |-> ticket_details.error]
    ELSE query_result(clock, user_query,
                      conversation_id_or_generated(conversation_id, clock),
                      ticket_ref, ticket_details, search(arts, user_query, NotGiven),
                      generate_response(history, user_query, ticket_details,
                                        search(arts, user_query, NotGiven)))

\* step 1 of process_query for the reference found in the query
query_with_reference(agent, remote, clock, user_query, conversation_id, ticket_ref) ==
    answer_query(agent.articles, agent.history, clock, user_query, conversation_id,
                 ticket_ref,
                 referenced_ticket(agent.tickets_file, agent.credentials, remote, ticket_ref))

\* CustomerSupportAgent.process_query(user_query, conversation_id) on an
\* agent's knowledge base, ticket retriever and history: whether it raised,
\* else what it returns and the entry it appends to the history
process_query(agent, remote, clock, user_query, conversation_id) ==
    query_with_reference(agent, remote, clock, user_query, conversation_id,
                         extract_ticket_reference(user_query))

\* a log that takes the new entry at the front
prepend_entry(history, entry) == <<entry>> \o history

\* step 4 of process_query: self.conversation_history.append(entry)
append_entry(history, entry) == Append(history, entry)

\* CustomerSupportAgent.get_conversation_history(conversation_id)
get_conversation_history(history, conversation_id) ==
    IF conversation_id # NoneVal /\ conversation_id # <<>>
    THEN SelectSeq(history, LAMBDA entry : entry.conversation_id = conversation_id)
    ELSE history

(***************************************************************************)
(* main.py: interactive_chat                                               *)
(***************************************************************************)
\* no interactive session
NoChat == [at |-> "none"]

\* the loop waits for input, with the conversation id and the last display
Waiting(conversation_id, shown) ==
    [at |-> "input", conversation_id |-> conversation_id, shown |-> shown]

\* the loop was left, after a last display
Ended(shown) == [at |-> "ended", shown |-> shown]

\* a loop that an unexpected failure ends
leave_after_failure(session, error) == Ended([kind |-> "apology", error |-> error])

\* except Exception: the apology line, and the loop goes on
after_failure(session, error) ==
    Waiting(session.conversation_id, [kind |-> "apology", error |-> error])

\* the 'history' command
show_history(session, history) ==
    Waiting(session.conversation_id,
            IF get_conversation_history(history, session.conversation_id) # <<>>
            THEN [kind |-> "history",
                  entries |-> get_conversation_history(history, session.conversation_id)]
            ELSE [kind |-> "no_history"])

\* the turn for a query, given what process_query did
after_query(session, out) ==
    IF out.raised THEN after_failure(session, out.error)
    ELSE Waiting(out.response_data.conversation_id,
                 [kind |-> "response", text |-> out.response_data.response])

\* the pass of the loop that called process_query, with what it did
query_turn(session, out) ==
    [session |-> after_query(session, out), called |-> TRUE, out |-> out]

\* one pass of the while loop: what input() gave (a line, EOFError or
\* KeyboardInterrupt), the session after it and what process_query did, if
\* it was called
chat_turn(agent, session, event, remote, clock) ==
    IF event.kind = "interrupt"
    THEN [session |-> Ended([kind |-> "exiting"]), called |-> FALSE]
    ELSE IF event.kind = "read_error"
    THEN [session |-> after_failure(session, "EOFError"), called |-> FALSE]
    ELSE IF Strip(event.line) = <<>>
    THEN [session |-> Waiting(session.conversation_id, [kind |-> "nothing"]),
          called |-> FALSE]
    ELSE IF lower(Strip(event.line)) \in {s_exit, s_quit, s_bye}
    THEN [session |-> Ended([kind |-> "goodbye"]), called |-> FALSE]
    ELSE IF lower(Strip(event.line)) = s_history
    THEN [session |-> show_history(session, agent.history), called |-> FALSE]
    ELSE query_turn(session, process_query(agent, remote, clock, Strip(event.line),
                                           session.conversation_id))

(***************************************************************************)
(* Actions                                                                 *)
(***************************************************************************)
NoCall == [name |-> "init"]

\* KnowledgeBase.__init__ over a storage directory
KBInit ==
    /\ base_path \in StorageDirs
    /\ articles = load_articles(base_path)
    /\ SIMILARITY_THRESHOLD \in Thresholds

AddArticle(title, content, category, tags) ==
    /\ Len(articles) < MaxArticles
    /\ articles' = add_article(articles, title, content, category, tags)
    /\ op' = [name |-> "add_article", title |-> title, content |-> content]
    /\ prev_op' = op.name
    /\ ret' = [kind |-> "none"]
    /\ UNCHANGED <<chat, text_args, base_path, SIMILARITY_THRESHOLD, tickets_file,
                   credentials, conversation_history, now, calls>>

Search(query, max_results) ==
    /\ op' = [name |-> "search", query |-> query, max_results |-> max_results]
    /\ prev_op' = op.name
    /\ ret' = [kind |-> "list", results |-> search(articles, query, max_results),
               scored |-> articles_scored(articles, query)]
    /\ articles' = store_after_search(articles, query)
    /\ UNCHANGED <<chat, text_args, base_path, SIMILARITY_THRESHOLD,
                   tickets_file, credentials, conversation_history, now,
                   calls>>

GetAllArticles ==
    /\ op' = [name |-> "get_all_articles"]
    /\ prev_op' = op.name
    /\ ret' = [kind |-> "articles", items |-> get_all_articles(articles).items,
               list_of_store |-> get_all_articles(articles).list_of_store]
    /\ UNCHANGED <<chat, text_args, base_path, articles, SIMILARITY_THRESHOLD,
                   tickets_file, credentials, conversation_history, now,
                   calls>>

GetArticleById(article_id) ==
    /\ op' = [name |-> "get_article_by_id", article_id |-> article_id]
    /\ prev_op' = op.name
    /\ ret' = [kind |-> "article", result |-> get_article_by_id(articles, article_id)]
    /\ UNCHANGED <<chat, text_args, base_path, articles, SIMILARITY_THRESHOLD,
                   tickets_file, credentials, conversation_history, now,
                   calls>>

\* the caller appends to, or removes from, the list get_all_articles returned;
\* the store's list changes with it when it is the same list
ChangeReturnedList(change) ==
    /\ ret.kind = "articles"
    /\ change = "remove" => ret.items # <<>>
    /\ Len(ret.items) <= MaxArticles
    /\ op' = [name |-> "change_returned_list", change |-> change]
    /\ prev_op' = op.name
    /\ ret' = [ret EXCEPT !.items = IF change = "append"
                                    THEN Append(ret.items, stored_password)
                                    ELSE SubSeq(ret.items, 1, Len(ret.items) - 1)]
    /\ articles' = IF ret.list_of_store THEN ret'.items ELSE articles
    /\ UNCHANGED <<chat, text_args, base_path, SIMILARITY_THRESHOLD,
                   tickets_file, credentials, conversation_history, now,
                   calls>>

\* initialize_sample_knowledge_base on the new, empty store
InitializeSampleKnowledgeBase ==
    /\ articles = <<>>
    /\ articles' = initialize_sample_knowledge_base(articles)
    /\ op' = [name |-> "initialize_sample_knowledge_base"]
    /\ prev_op' = op.name
    /\ ret' = [kind |-> "none"]
    /\ UNCHANGED <<chat, text_args, base_path, SIMILARITY_THRESHOLD, tickets_file,
                   credentials, conversation_history, now, calls>>

\* TextProcessor.extract_ticket_reference(text)
ExtractTicketReference ==
    /\ Len(text_args) = 1
    /\ op' = [name |-> "extract_ticket_reference", text |-> text_args[1]]
    /\ ret' = [kind |-> "str", value |-> extract_ticket_reference(text_args[1])]
    /\ UNCHANGED <<chat, text_args, base_path, articles, SIMILARITY_THRESHOLD,
                   tickets_file, credentials, conversation_history, now,
                   calls, prev_op>>

\* TextProcessor.extract_keywords(text)
ExtractKeywords ==
    /\ Len(text_args) = 1
    /\ op' = [name |-> "extract_keywords", text |-> text_args[1]]
    /\ ret' = [kind |-> "keywords", keywords |-> extract_keywords(text_args[1])]
    /\ UNCHANGED <<chat, text_args, base_path, articles, SIMILARITY_THRESHOLD,
                   tickets_file, credentials, conversation_history, now,
                   calls, prev_op>>

\* TextProcessor.calculate_similarity(text1, text2)
CalculateSimilarity ==
    /\ Len(text_args) = 2
    /\ op' = [name |-> "calculate_similarity", text1 |-> text_args[1],
              text2 |-> text_args[2]]
    /\ ret' = [kind |-> "float",
               value |-> calculate_similarity(text_args[1], text_args[2])]
    /\ UNCHANGED <<chat, text_args, base_path, articles, SIMILARITY_THRESHOLD,
                   tickets_file, credentials, conversation_history, now,
                   calls, prev_op>>

\* TicketRetriever.__init__
TKInit ==
    /\ \E existing \in ExistingTicketFiles :
           tickets_file = initialize_local_tickets(existing)
    /\ credentials \in CredentialSettings

GetTicketCall(ticket_id, remote, variant_of) ==
    /\ op' = [name |-> "get_ticket", ticket_id |-> ticket_id, remote |-> remote,
              variant_of |-> variant_of]
    /\ ret' = get_ticket(tickets_file, credentials, remote, ticket_id)
    /\ UNCHANGED <<chat, text_args, base_path, articles, SIMILARITY_THRESHOLD,
                   tickets_file, credentials, conversation_history, now,
                   calls, prev_op>>

\* get_ticket with an identifier of the caller's
GetTicket(ticket_id, remote) == GetTicketCall(ticket_id, remote, 0)

\* get_ticket with the identifier of the stored ticket i, respelled and padded
GetTicketVariant(i, remote) ==
    /\ tickets_file.kind = "list"
    /\ i \in 1..Len(tickets_file.items)
    /\ \E spelled \in CaseVariants(tickets_file.items[i].id), pad \in Paddings :
           GetTicketCall(pad[1] \o spelled \o pad[2], remote, i)

SearchTickets(query, max_results) ==
    /\ op' = [name |-> "search_tickets", query |-> query, max_results |-> max_results]
    /\ ret' = [kind |-> "list", results |-> search_tickets(tickets_file, query, max_results)]
    /\ UNCHANGED <<chat, text_args, base_path, articles, SIMILARITY_THRESHOLD,
                   tickets_file, credentials, conversation_history, now,
                   calls, prev_op>>

\* the agent: its knowledge base, its ticket retriever and its history
Agent ==
    [articles |-> articles, tickets_file |-> tickets_file, credentials |-> credentials,
     history |-> conversation_history]

\* the state after a process_query call with the outcome out
ProcessQueryOutcome(user_query, conversation_id, remote, out) ==
    /\ op' = [name |-> "process_query", user_query |-> user_query,
              conversation_id |-> conversation_id, remote |-> remote]
    /\ IF out.raised
       THEN /\ ret' = [kind |-> "raised", error |-> out.error]
            /\ UNCHANGED <<conversation_history, calls>>
       ELSE /\ ret' = [kind |-> "response", response_data |-> out.response_data]
            /\ conversation_history' = append_entry(conversation_history, out.entry)
            /\ calls' = Append(calls, [conversation_id |-> out.response_data.conversation_id,
                                       generated |-> out.response_data.conversation_id
                                                         # conversation_id,
                                       entry |-> out.entry])
    /\ prev_op' = op.name
    /\ UNCHANGED <<chat, text_args, base_path, articles, SIMILARITY_THRESHOLD,
                   tickets_file, credentials, now>>

ProcessQuery(user_query, conversation_id, remote) ==
    /\ Len(conversation_history) < MaxHistory
    /\ ProcessQueryOutcome(user_query, conversation_id, remote,
                           process_query(Agent, remote, now, user_query, conversation_id))

GetConversationHistory(conversation_id) ==
    /\ op' = [name |-> "get_conversation_history", conversation_id |-> conversation_id]
    /\ ret' = [kind |-> "entries",
               entries |-> get_conversation_history(conversation_history, conversation_id)]
    /\ UNCHANGED <<chat, text_args, base_path, articles, SIMILARITY_THRESHOLD,
                   tickets_file, credentials, conversation_history, now,
                   calls, prev_op>>

ClearConversationHistory ==
    /\ conversation_history # <<>>
    /\ conversation_history' = <<>>
    /\ calls' = <<>>
    /\ op' = [name |-> "clear_conversation_history"]
    /\ ret' = [kind |-> "none"]
    /\ UNCHANGED <<chat, text_args, base_path, articles, SIMILARITY_THRESHOLD,
                   tickets_file, credentials, now, prev_op>>

\* one pass of the loop of interactive_chat
InteractiveTurnOutcome(event, remote, turn) ==
    /\ turn.called => Len(conversation_history) < MaxHistory
    /\ chat' = turn.session
    /\ op' = [name |-> "interactive_turn", event |-> event, remote |-> remote]
    /\ IF turn.called /\ ~turn.out.raised
       THEN /\ conversation_history' = append_entry(conversation_history, turn.out.entry)
            /\ calls' = Append(calls,
                   [conversation_id |-> turn.out.response_data.conversation_id,
                    generated |-> turn.out.response_data.conversation_id
                                      # chat.conversation_id,
                    entry |-> turn.out.entry])
       ELSE /\ conversation_history' = conversation_history
            /\ calls' = calls
    /\ prev_op' = op.name
    /\ UNCHANGED <<text_args, base_path, articles, SIMILARITY_THRESHOLD,
                   tickets_file, credentials, now, ret>>

InteractiveTurn(event, remote) ==
    /\ chat.at = "input"
    /\ InteractiveTurnOutcome(event, remote, chat_turn(Agent, chat, event, remote, now))

\* time passes between two calls
Tick ==
    /\ now < MaxClock
    /\ now' = now + 1
    /\ UNCHANGED <<chat, text_args, base_path, articles, SIMILARITY_THRESHOLD,
                   tickets_file, credentials, conversation_history, calls, op,
                   prev_op, ret>>

(***************************************************************************)
(* Specifications                                                          *)
(***************************************************************************)
\* an empty article store under the default configuration
KBIdle ==
    /\ base_path = <<>>
    /\ articles = <<>>
    /\ SIMILARITY_THRESHOLD = 7

\* the seeded ticket file, no remote credentials
TKIdle ==
    /\ tickets_file = JsonList(sample_tickets)
    /\ credentials = [username |-> FALSE, api_token |-> FALSE]

AgentIdle ==
    /\ conversation_history = <<>>
    /\ now = 0
    /\ calls = <<>>

NoCallYet ==
    /\ chat = NoChat
    /\ op = NoCall
    /\ prev_op = "init"
    /\ ret = [kind |-> "none"]

\* no text utility is called
NoTextArgs == text_args = <<>>

\* the article store
InitKB == KBInit /\ TKIdle /\ AgentIdle /\ NoCallYet /\ NoTextArgs

NextKB ==
    \/ \E a \in ArticleInputs : AddArticle(a[1], a[2], a[3], a[4])
    \/ \E q \in Queries, m \in MaxResultsArgs : Search(q, m)

SpecKB == InitKB /\ [][NextKB]_vars

\* the ticket store
InitTickets == KBIdle /\ TKInit /\ AgentIdle /\ NoCallYet /\ NoTextArgs

NextTickets ==
    \/ \E id \in OtherTicketIds, r \in RemoteAnswers : GetTicket(id, r)
    \/ \E i \in 1..3, r \in VariantRemotes : GetTicketVariant(i, r)
    \/ \E q \in TicketQueries, m \in 0..MaxRequested : SearchTickets(q, m)

SpecTickets == InitTickets /\ [][NextTickets]_vars

\* both searches: the article store under the default threshold, and the
\* ticket file
InitSearch ==
    /\ base_path \in StorageDirs
    /\ articles = load_articles(base_path)
    /\ SIMILARITY_THRESHOLD = 7
    /\ \E existing \in ExistingTicketFiles :
           tickets_file = initialize_local_tickets(existing)
    /\ credentials = [username |-> FALSE, api_token |-> FALSE]
    /\ AgentIdle
    /\ NoCallYet
    /\ NoTextArgs

NextSearch ==
    \/ \E a \in ArticleInputs : AddArticle(a[1], a[2], a[3], a[4])
    \/ \E q \in {s_reset, s_pass}, m \in {NotGiven, Given(MaxRequested)} : Search(q, m)
    \/ \E q \in {s_error, s_crash}, m \in {1, MaxRequested} : SearchTickets(q, m)

SpecSearch == InitSearch /\ [][NextSearch]_vars

\* the store of the sample articles under the default configuration
InitSample == KBIdle /\ TKIdle /\ AgentIdle /\ NoCallYet /\ NoTextArgs

NextSample ==
    \/ InitializeSampleKnowledgeBase
    \/ \E q \in SampleQueries, m \in MaxResultsArgs \cup {Given(3)} : Search(q, m)

SpecSample == InitSample /\ [][NextSample]_vars

\* the text utilities, which keep no state: the caller's texts are chosen
\* at the start
InitText ==
    /\ KBIdle /\ TKIdle /\ AgentIdle /\ NoCallYet
    /\ text_args \in TextArgs

NextText ==
    \/ ExtractTicketReference
    \/ ExtractKeywords
    \/ CalculateSimilarity

SpecText == InitText /\ [][NextText]_vars

\* the agent over a loaded article store, the seeded tickets and a remote end
InitAgent ==
    /\ base_path = <<JsonList(<<stored_faq>>), JsonDict(stored_password)>>
    /\ articles = load_articles(base_path)
    /\ SIMILARITY_THRESHOLD = 7
    /\ tickets_file = JsonList(sample_tickets)
    /\ credentials = [username |-> TRUE, api_token |-> TRUE]
    /\ AgentIdle
    /\ NoCallYet
    /\ NoTextArgs

\* both stores over storage files that may be malformed
InitStorage == KBInit /\ TKInit /\ AgentIdle /\ NoCallYet /\ NoTextArgs

NextStorage ==
    \/ \E query \in {s_reset, s_empty} : Search(query, NotGiven)
    \/ \E id \in {s_PROJ_9999, s_proj_1001}, r \in VariantRemotes : GetTicket(id, r)
    \/ \E query \in {s_error, s_empty} : SearchTickets(query, MaxRequested)

SpecStorage == InitStorage /\ [][NextStorage]_vars

\* the agent main.py builds: the sample articles, the seeded tickets
InitDemo ==
    /\ base_path = <<>>
    /\ articles = initialize_sample_knowledge_base(<<>>)
    /\ SIMILARITY_THRESHOLD = 7
    /\ tickets_file = JsonList(sample_tickets)
    /\ credentials = [username |-> TRUE, api_token |-> TRUE]
    /\ AgentIdle
    /\ NoCallYet
    /\ NoTextArgs

NextDemo ==
    \/ \E user_query \in DemoQueries, id \in {NoneVal, s_conv_a}, r \in AgentRemotes :
           ProcessQuery(user_query, id, r)
    \/ ClearConversationHistory

SpecDemo == InitDemo /\ [][NextDemo]_vars

\* what input() gives the loop
ChatLines ==
    { s_exit, <<" ","E","X","I","T"," ">>, s_quit, <<"B","y","e">>, s_empty,
      <<" "," ">>, s_history, s_hello, s_whats_the_status,
      <<"c","h","e","c","k"," ","P","R","O","J","-","9","9","9","9">> }

ChatEvents ==
    {[kind |-> "line", line |-> t] : t \in ChatLines}
    \cup {[kind |-> "interrupt"], [kind |-> "read_error"]}

\* interactive_chat: the agent over the sample articles and the seeded
\* tickets, at the first prompt
InitChat ==
    /\ base_path = <<>>
    /\ articles = initialize_sample_knowledge_base(<<>>)
    /\ SIMILARITY_THRESHOLD = 7
    /\ tickets_file = JsonList(sample_tickets)
    /\ credentials \in {[username |-> b, api_token |-> b] : b \in BOOLEAN}
    /\ AgentIdle
    /\ op = NoCall /\ prev_op = "init" /\ ret = [kind |-> "none"]
    /\ NoTextArgs
    /\ chat = Waiting(NoneVal, [kind |-> "banner"])

NextChat == \E event \in ChatEvents, r \in AgentRemotes : InteractiveTurn(event, r)

SpecChat == InitChat /\ [][NextChat]_vars

\* searching and reading an article store loaded from its directory
ArticleIds == {KBId(1), KBId(2), KBId(9)}

InitRead == KBInit /\ TKIdle /\ AgentIdle /\ NoCallYet /\ NoTextArgs

NextRead ==
    \/ \E q \in Queries, m \in {NotGiven, Given(1)} : Search(q, m)
    \/ GetAllArticles
    \/ \E id \in ArticleIds : GetArticleById(id)
    \/ \E change \in {"append", "remove"} : ChangeReturnedList(change)

SpecRead == InitRead /\ [][NextRead]_vars

\* the agent asked one query again and again, over an article store that is
\* empty or holds the guide articles, and tickets found in the local file only
InitCompose ==
    /\ base_path = <<>>
    /\ articles \in {<<>>, add_all(<<>>, guide_articles)}
    /\ SIMILARITY_THRESHOLD = 7
    /\ tickets_file = JsonList(sample_tickets \o <<ticket_bug_lower>>)
    /\ credentials = [username |-> FALSE, api_token |-> FALSE]
    /\ AgentIdle
    /\ NoCallYet
    /\ text_args \in {<<q>> : q \in ComposeQueries}

NextCompose ==
    \/ \E r \in AgentRemotes : ProcessQuery(text_args[1], NoneVal, r)
    \/ ClearConversationHistory

SpecCompose == InitCompose /\ [][NextCompose]_vars

\* the identifiers a caller may ask the history of
HistoryIds ==
    ConversationIds \cup {s_conv_b} \cup {generated_conversation_id(t) : t \in 0..MaxClock}

NextAgent ==
    \/ \E q \in AgentQueries, id \in ConversationIds, r \in AgentRemotes :
           ProcessQuery(q, id, r)
    \/ \E id \in HistoryIds : GetConversationHistory(id)
    \/ ClearConversationHistory
    \/ Tick

SpecAgent == InitAgent /\ [][NextAgent]_vars

(***************************************************************************)
(* Claims on the article store (SpecKB)                                    *)
(***************************************************************************)
\* the positions, in the collection, of the articles the last search returned
ReturnedPositions == {ret.results[i].position : i \in 1..Len(ret.results)}

threshold == Rat(SIMILARITY_THRESHOLD, 10)

\* C2: for every store content and every query, search never returns an
\* article whose relevance score is below the configured similarity threshold.
C2_NoResultBelowThreshold ==
    op.name = "search" =>
        \A i \in 1..Len(ret.results) :
            /\ RatEq(ret.results[i].relevance_score,
                     relevance_score(articles[ret.results[i].position], op.query))
            /\ RatGeq(ret.results[i].relevance_score, threshold)

\* a search that returned an article and left out one that scored above zero
\* but below the threshold
C2_Witness ==
    /\ op.name = "search"
    /\ ret.results # <<>>
    /\ \E i \in 1..Len(articles) :
           /\ RatPos(relevance_score(articles[i], op.query))
           /\ RatLess(relevance_score(articles[i], op.query), threshold)
           /\ i \notin ReturnedPositions

\* C3: for every store content, every query and any non-negative maxResults
\* passed by the caller, search returns at most maxResults entries.
C3_AtMostMaxResults ==
    (op.name = "search" /\ op.max_results # NotGiven) =>
        Len(ret.results) <= op.max_results[1]

\* the token k is a query of one keyword
IsKeyword(k) == k # <<>> /\ extract_keywords(k) = <<k>>

\* k occurs in the article: as a substring of its title, content, category or
\* joined tags, or in its keywords
Mentions(article, k) ==
    \/ Contains(k, lower(article.title \o <<" ">> \o article.content))
    \/ Contains(k, lower(article.category))
    \/ Contains(k, JoinSpace(AsTuple([i \in 1..Len(article.tags) |-> lower(article.tags[i])])))
    \/ k \in Range(article.keywords)

\* add_article was followed immediately by search(k), k a keyword of the new
\* article's content and of no other article's keywords
AddedThenSearchedUnique ==
    /\ op.name = "search"
    /\ prev_op = "add_article"
    /\ IsKeyword(op.query)
    /\ op.query \in Range(extract_keywords(articles[Len(articles)].content))
    /\ \A i \in 1..(Len(articles) - 1) : op.query \notin Range(articles[i].keywords)

OthersMentioning ==
    {i \in 1..(Len(articles) - 1) : Mentions(articles[i], op.query)}

\* C5 as stated: add_article followed immediately by search(k), k a keyword
\* of the new article's content and of no other article's keywords, returns
\* a list that contains the new article.
C5_AsStated ==
    AddedThenSearchedUnique => Len(articles) \in ReturnedPositions

\* C5: add_article followed immediately by search(k), k a keyword of the new
\* article's content and of no other article's keywords, returns a list that
\* contains the new article whenever the similarity threshold lies in its
\* range 0 to 1 and fewer other articles mention k (in title, content,
\* category, tags or keywords) than the number of entries the search may
\* return.
C5_RoundTrip ==
    (/\ AddedThenSearchedUnique
     /\ SIMILARITY_THRESHOLD \in Thresholds
     /\ Cardinality(OthersMentioning) < effective_max_results(op.max_results))
        => Len(articles) \in ReturnedPositions

\* the new article is returned together with another article that mentions k
C5_Witness ==
    /\ AddedThenSearchedUnique
    /\ OthersMentioning # {}
    /\ Cardinality(OthersMentioning) < effective_max_results(op.max_results)
    /\ Len(articles) \in ReturnedPositions
    /\ Len(ret.results) >= 2

\* C11: search with the empty-string query returns an empty sequence, without
\* raising and without scoring any article, whatever the store contains and
\* whatever max_results is.
C11_EmptyQueryReturnsNothing ==
    (op.name = "search" /\ op.query = s_empty) =>
        /\ ret.kind = "list"
        /\ ret.results = <<>>
        /\ ret.scored = 0

\* an empty-query search, with max_results given, on a store whose first
\* article would have scored above the threshold had it been scored
C11_Witness ==
    /\ op.name = "search"
    /\ op.query = s_empty
    /\ op.max_results # NotGiven
    /\ articles # <<>>
    /\ RatGeq(relevance_score(articles[1], s_empty), threshold)
    /\ ret.results = <<>>

\* C6: no two articles of the collection have the same identifier, whatever
\* the storage files held, and add_article never reuses an identifier.
C6_IdentifiersUnique ==
    \A i, j \in 1..Len(articles) : i # j => articles[i].id # articles[j].id

(***************************************************************************)
(* Claims on the store of the sample articles (SpecSample)                 *)
(***************************************************************************)
SearchedPasswordReset ==
    /\ op.name = "search"
    /\ op.query = s_password_reset
    /\ Len(articles) = Len(sample_articles)

\* C12: with the five sample articles added through add_article and the
\* default threshold 0.7, search("password reset") returns the article titled
\* "How to Reset Your Password" first, with a score strictly greater than the
\* score of every other article and at least the threshold.
C12_PasswordResetRankedFirst ==
    SearchedPasswordReset =>
        /\ ret.results # <<>>
        /\ ret.results[1].article.title = s_How_to_Reset_Your_Password
        /\ RatGeq(ret.results[1].relevance_score, threshold)
        /\ \A i \in 1..Len(articles) :
               i # ret.results[1].position =>
                   RatLess(relevance_score(articles[i], op.query),
                           ret.results[1].relevance_score)

\* the search returned the article with score 3.5, ahead of the article on
\* login issues with score 5/3
C12_Witness ==
    /\ SearchedPasswordReset
    /\ Len(ret.results) = 2
    /\ ret.results[1].position = 1
    /\ RatEq(ret.results[1].relevance_score, Rat(7, 2))
    /\ ret.results[2].position = 2
    /\ RatEq(ret.results[2].relevance_score, Rat(5, 3))

(***************************************************************************)
(* Claims on the text utilities (SpecText)                                 *)
(***************************************************************************)
AllOf(w, chars) == \A i \in 1..Len(w) : w[i] \in chars

\* w is LETTERS-DIGITS: one or more letters, a hyphen, one or more digits
IsLettersDigits(w) ==
    \E k \in 1..(Len(w) - 2) :
        /\ AllOf(SubSeq(w, 1, k), AsciiLetters)
        /\ w[k + 1] = "-"
        /\ AllOf(SubSeq(w, k + 2, Len(w)), DigitChars)

\* w has the shape of the pattern of the given priority
HasShape(priority, w) ==
    CASE priority = 1 -> IsLettersDigits(w)
      [] priority = 2 -> Len(w) >= 1 /\ w[1] = "#" /\ IsLettersDigits(Tail(w))
      [] priority = 3 -> /\ Len(w) >= 8
                         /\ upper(SubSeq(w, 1, 7)) = <<"T","I","C","K","E","T","-">>
                         /\ AllOf(SubSeq(w, 8, Len(w)), DigitChars)
      [] priority = 4 -> Len(w) >= 2 /\ w[1] = "#" /\ AllOf(Tail(w), DigitChars)

\* where the text has the shape of the pattern: <<first, last>> positions
Occurrences(priority, text) ==
    {pos \in (1..Len(text)) \X (1..Len(text)) :
        pos[1] <= pos[2] /\ HasShape(priority, SubSeq(text, pos[1], pos[2]))}

\* the first match: the leftmost occurrence, as long as it can be
FirstOccurrence(priority, text) ==
    CHOOSE pos \in Occurrences(priority, text) :
        \A other \in Occurrences(priority, text) :
            \/ pos[1] < other[1]
            \/ pos[1] = other[1] /\ pos[2] >= other[2]

MatchingPriorities(text) == {pr \in 1..4 : Occurrences(pr, text) # {}}

WithoutLeadingHash(w) == IF w[1] = "#" THEN Tail(w) ELSE w

\* what the claim says extract_ticket_reference returns for the text
ExpectedReference(text) ==
    IF MatchingPriorities(text) = {} THEN <<>>
    ELSE LET pr == First(MatchingPriorities(text))
             pos == FirstOccurrence(pr, text)
         IN  upper(WithoutLeadingHash(SubSeq(text, pos[1], pos[2])))

\* C13: extract_ticket_reference returns the first match of the first of the
\* patterns LETTERS-DIGITS, #LETTERS-DIGITS, TICKET-DIGITS, #DIGITS that
\* matches anywhere in the text, uppercased and without its leading '#', and
\* the empty string exactly when no pattern matches; "no ticket here" gives
\* "" and "What's the status of ticket PROJ-1001?" gives "PROJ-1001".
C13_FirstMatchOfFirstPattern ==
    op.name = "extract_ticket_reference" =>
        /\ ret.value = ExpectedReference(op.text)
        /\ (ret.value = <<>>) <=> (MatchingPriorities(op.text) = {})
        /\ op.text = s_no_ticket_here => ret.value = <<>>
        /\ op.text = s_whats_the_status => ret.value = id_1001

\* a text where '#' and digits come before letters, hyphen and digits: the
\* pattern of higher priority wins over the match further left
C13_Witness ==
    /\ op.name = "extract_ticket_reference"
    /\ {1, 4} \subseteq MatchingPriorities(op.text)
    /\ FirstOccurrence(4, op.text)[1] < FirstOccurrence(1, op.text)[1]
    /\ ret.value = upper(SubSeq(op.text, FirstOccurrence(1, op.text)[1],
                                FirstOccurrence(1, op.text)[2]))

\* a text where only '#' and digits match: the '#' is removed
C13_HashNumberOnly ==
    /\ op.name = "extract_ticket_reference"
    /\ MatchingPriorities(op.text) = {4}
    /\ ret.value # <<>>

\* the keyword sets of the two texts of the last comparison
KeywordSet1 == Range(extract_keywords(op.text1))

KeywordSet2 == Range(extract_keywords(op.text2))

\* C14: calculate_similarity(a, b) is the Jaccard index of the two keyword
\* sets and lies in [0, 1]; it is 1 for calculate_similarity(x, x) when x
\* yields a keyword and 0 when either text yields no keyword.
C14_JaccardOfKeywordSets ==
    op.name = "calculate_similarity" =>
        /\ RatGeq(ret.value, Rat(0, 1))
        /\ RatGeq(Rat(1, 1), ret.value)
        /\ (KeywordSet1 # {} /\ KeywordSet2 # {}) =>
               RatEq(ret.value, Rat(Cardinality(KeywordSet1 \cap KeywordSet2),
                                    Cardinality(KeywordSet1 \cup KeywordSet2)))
        /\ (op.text1 = op.text2 /\ KeywordSet1 # {}) => RatEq(ret.value, Rat(1, 1))
        /\ (KeywordSet1 = {} \/ KeywordSet2 = {}) => RatEq(ret.value, Rat(0, 1))

\* two texts that share some keywords but not all: strictly between 0 and 1
C14_Witness ==
    /\ op.name = "calculate_similarity"
    /\ KeywordSet1 \cap KeywordSet2 # {}
    /\ KeywordSet1 \ KeywordSet2 # {}
    /\ KeywordSet2 \ KeywordSet1 # {}
    /\ RatPos(ret.value)
    /\ RatLess(ret.value, Rat(1, 1))

\* a text compared with itself, and a text compared with one without keywords
C14_SelfAndEmpty ==
    \/ /\ op.name = "calculate_similarity"
       /\ op.text1 = op.text2 /\ KeywordSet1 # {}
       /\ RatEq(ret.value, Rat(1, 1))
    \/ /\ op.name = "calculate_similarity"
       /\ KeywordSet1 # {} /\ KeywordSet2 = {} /\ op.text2 # s_empty
       /\ RatEq(ret.value, Rat(0, 1))

\* C15: extract_keywords is idempotent: applied to the space-joined output of
\* extract_keywords it yields the same set of keywords.
C15_KeywordsIdempotent ==
    op.name = "extract_keywords" =>
        Range(extract_keywords(JoinSpace(ret.keywords))) = Range(ret.keywords)

\* a text that is not its own output: it loses words and letter case
C15_Witness ==
    /\ op.name = "extract_keywords"
    /\ Len(ret.keywords) >= 2
    /\ Len(FindWords(op.text)) > Len(ret.keywords)
    /\ lower(op.text) # op.text
    /\ extract_keywords(JoinSpace(ret.keywords)) = ret.keywords

\* the tokens of the text, each with the position it starts at: the maximal
\* runs of word characters of the lower-cased text
Tokens(text) ==
    LET low    == lower(text)
        starts == {i \in 1..Len(low) :
                      low[i] \in WordChars /\ (i = 1 \/ low[i - 1] \notin WordChars)}
        ends   == {j \in 1..Len(low) :
                      low[j] \in WordChars /\ (j = Len(low) \/ low[j + 1] \notin WordChars)}
    IN  {<<pos[1], SubSeq(low, pos[1], pos[2])>> :
            pos \in {sp \in starts \X ends :
                        sp[1] <= sp[2] /\ AllOf(SubSeq(low, sp[1], sp[2]), WordChars)}}

\* how often the token w occurs, and where it occurs first
Frequency(tokens, w) == Cardinality({t \in tokens : t[2] = w})

FirstOccurrenceOf(tokens, w) == First({t[1] : t \in {u \in tokens : u[2] = w}})

\* the tokens that are long enough and no stop words
KeywordTokens(tokens) ==
    {w \in {t[2] : t \in tokens} : Len(w) >= min_length /\ w \notin stop_words}

\* the keywords are in descending order of frequency, and keywords of equal
\* frequency in the order of their first occurrence
InFrequencyOrder(keywords, tokens) ==
    \A i, j \in 1..Len(keywords) :
        i < j =>
            \/ Frequency(tokens, keywords[i]) > Frequency(tokens, keywords[j])
            \/ /\ Frequency(tokens, keywords[i]) = Frequency(tokens, keywords[j])
               /\ FirstOccurrenceOf(tokens, keywords[i])
                      < FirstOccurrenceOf(tokens, keywords[j])

\* C16: extract_keywords returns each keyword once: every returned token is
\* lowercase, at least min_length long and no stop word; every such token of
\* the input is returned; the tokens are in descending order of frequency,
\* and tokens of equal frequency in the order of their first occurrence.
C16_UniqueByFrequency ==
    op.name = "extract_keywords" =>
        /\ \A i, j \in 1..Len(ret.keywords) :
               i # j => ret.keywords[i] # ret.keywords[j]
        /\ \A i \in 1..Len(ret.keywords) :
               /\ lower(ret.keywords[i]) = ret.keywords[i]
               /\ Len(ret.keywords[i]) >= min_length
               /\ ret.keywords[i] \notin stop_words
        /\ Range(ret.keywords) = KeywordTokens(Tokens(op.text))
        /\ InFrequencyOrder(ret.keywords, Tokens(op.text))

\* a more frequent keyword is returned before one that occurs earlier, and
\* two keywords of equal frequency follow in the order of the text
C16_Witness ==
    /\ op.name = "extract_keywords"
    /\ Len(ret.keywords) >= 3
    /\ FirstOccurrenceOf(Tokens(op.text), ret.keywords[1])
           > FirstOccurrenceOf(Tokens(op.text), ret.keywords[2])
    /\ Frequency(Tokens(op.text), ret.keywords[2])
           = Frequency(Tokens(op.text), ret.keywords[3])

(***************************************************************************)
(* Claims on ticket lookup (SpecTickets)                                   *)
(***************************************************************************)
\* C8: get_ticket never raises to its caller: for every outcome of the remote
\* fetch and any local file content it returns a ticket record or absent.
C8_NeverRaises ==
    op.name = "get_ticket" => ret.result.kind \in {"ticket", "absent"}

\* the identifier the last get_ticket call looked for
Normalised == upper(clean_text(op.ticket_id))

\* the positions of the local tickets stored under that identifier
LocalMatches ==
    IF tickets_file.kind = "list"
    THEN {i \in 1..Len(tickets_file.items) : upper(tickets_file.items[i].id) = Normalised}
    ELSE {}

FirstLocalMatch == CHOOSE i \in LocalMatches : \A j \in LocalMatches : i <= j

ConfiguredCredentials == credentials.username /\ credentials.api_token

RemoteHasTicket == op.remote.kind = "response" /\ op.remote.status_code = 200

\* C9: get_ticket looks in the local file first; it sends one remote request
\* at most, only after the local lookup found nothing and only if username
\* and API token are both configured; a ticket present locally is returned
\* without a remote request; the result is absent when neither source has
\* the ticket.
C9_LocalFirstSingleFallback ==
    op.name = "get_ticket" =>
        /\ ret.trace \in {<<"local">>, <<"local", "remote">>}
        /\ ret.trace = <<"local", "remote">> <=>
               (LocalMatches = {} /\ ConfiguredCredentials)
        /\ LocalMatches # {} =>
               ret.result = Found(tickets_file.items[FirstLocalMatch])
        /\ (LocalMatches = {} /\ ~RemoteHasTicket) => ret.result = Absent
        /\ (LocalMatches = {} /\ ~ConfiguredCredentials) => ret.result = Absent

\* a ticket the local file does not hold, fetched with the one remote request
C9_Witness ==
    /\ op.name = "get_ticket"
    /\ LocalMatches = {}
    /\ ret.trace = <<"local", "remote">>
    /\ ret.result.kind = "ticket"
    /\ ret.result.ticket.id = s_PROJ_9999

\* C10: for every ticket of the local file, get_ticket called with a
\* letter-case variant of its identifier, padded with whitespace or not,
\* returns the same record as get_ticket called with the identifier as
\* stored: a local ticket with that identifier, up to letter case.
C10_CaseInsensitiveLookup ==
    (op.name = "get_ticket" /\ op.variant_of # 0) =>
        LET stored == tickets_file.items[op.variant_of].id
        IN  /\ ret = get_ticket(tickets_file, credentials, op.remote, stored)
            /\ ret.result.kind = "ticket"
            /\ upper(ret.result.ticket.id) = upper(stored)
            /\ ret.trace = <<"local">>

\* "proj-1001", padded, resolved to the seeded PROJ-1001 record
C10_Witness ==
    /\ op.name = "get_ticket"
    /\ op.variant_of = 1
    /\ op.ticket_id = <<" ">> \o s_proj_1001
    /\ ret.result = Found(sample_tickets[1])
    /\ sample_tickets[1].id = id_1001

(***************************************************************************)
(* Claims on the conversation history (SpecAgent)                          *)
(***************************************************************************)
\* the entries of the calls made under a conversation id, in call order
EntriesOfCalls(conversation_id) ==
    LET made == SelectSeq(calls, LAMBDA c : c.conversation_id = conversation_id)
    IN  AsTuple([i \in 1..Len(made) |-> made[i].entry])

\* C1: get_conversation_history(id) returns exactly the entries of the calls
\* made with that id, in call order, and an empty sequence for an id that no
\* call used.
C1_HistoryOfConversation ==
    (op.name = "get_conversation_history" /\ op.conversation_id # NoneVal) =>
        ret.entries = EntriesOfCalls(op.conversation_id)

\* C7: the conversation id process_query generates differs from the id of
\* every earlier call, generated or supplied.
C7_GeneratedIdsUnique ==
    \A i, j \in 1..Len(calls) :
        (i < j /\ calls[j].generated) =>
            calls[j].conversation_id # calls[i].conversation_id

\* the composite score of a ticket: 10 for the query in the id, 5 in the
\* title, 2 in the description, plus 3 times the Jaccard index of the keywords
\* of the query and of the lower-cased title and description
CompositeScore(ticket, query) ==
    LET words1 == Range(extract_keywords(query))
        words2 == Range(extract_keywords(
                            lower(ticket.title) \o <<" ">> \o lower(ticket.description)))
    IN  RatAdd(Rat((IF Contains(lower(query), lower(ticket.id)) THEN 10 ELSE 0)
                   + (IF Contains(lower(query), lower(ticket.title)) THEN 5 ELSE 0)
                   + (IF Contains(lower(query), lower(ticket.description)) THEN 2 ELSE 0),
                   1),
               IF words1 = {} \/ words2 = {} THEN Rat(0, 1)
               ELSE Rat(3 * Cardinality(words1 \cap words2),
                        Cardinality(words1 \cup words2)))

\* the positions, in the file, of the tickets that score above 0 for the
\* query of the last call, and of the tickets the call returned
ScoringTickets ==
    {i \in 1..Len(tickets_file.items) :
        RatPos(CompositeScore(tickets_file.items[i], op.query))}

ReturnedTickets == {ret.results[i].position : i \in 1..Len(ret.results)}

\* C18: search_tickets applies no similarity threshold: it returns every
\* ticket whose composite score is greater than 0, also below the similarity
\* threshold, up to max_results (the highest scores first), and never a
\* ticket whose score is 0.
C18_TicketsAboveZero ==
    (op.name = "search_tickets" /\ tickets_file.kind = "list") =>
        /\ ReturnedTickets \subseteq ScoringTickets
        /\ \A i \in 1..Len(ret.results) :
               RatEq(ret.results[i].match_score,
                     CompositeScore(tickets_file.items[ret.results[i].position],
                                    op.query))
        /\ Cardinality(ReturnedTickets) = Len(ret.results)
        /\ Len(ret.results) = (IF Cardinality(ScoringTickets) < op.max_results
                               THEN Cardinality(ScoringTickets) ELSE op.max_results)
        /\ \A i \in ReturnedTickets, j \in ScoringTickets \ ReturnedTickets :
               ~RatLess(CompositeScore(tickets_file.items[i], op.query),
                        CompositeScore(tickets_file.items[j], op.query))

\* a returned ticket scores below the similarity threshold, and a ticket
\* that scores 0 is left out
C18_Witness ==
    /\ op.name = "search_tickets"
    /\ tickets_file.kind = "list"
    /\ \E i \in 1..Len(ret.results) : RatLess(ret.results[i].match_score, threshold)
    /\ \E j \in 1..Len(tickets_file.items) : j \notin ScoringTickets

\* max_results cut the list of the tickets that score above 0
C18_Truncated ==
    /\ op.name = "search_tickets"
    /\ tickets_file.kind = "list"
    /\ ret.results # <<>>
    /\ Len(ret.results) < Cardinality(ScoringTickets)

\* C26: the conversation log is append-only and updated atomically per
\* query: a process_query call that returns appends exactly one entry at the
\* end of the log and leaves the earlier entries unchanged and in place, and
\* a process_query call that fails appends no entry and leaves the log
\* unchanged.
C26_AppendOnlyPerQuery ==
    [][(op'.name = "process_query" /\ now' = now)
          => IF ret'.kind = "response"
             THEN /\ Len(conversation_history') = Len(conversation_history) + 1
                  /\ SubSeq(conversation_history', 1, Len(conversation_history))
                         = conversation_history
                  /\ conversation_history'[Len(conversation_history')].user_query
                         = op'.user_query
                  /\ conversation_history'[Len(conversation_history')].agent_response
                         = ret'.response_data.response
             ELSE conversation_history' = conversation_history]_vars

\* a second query was answered and its entry follows the first one
C26_Witness ==
    /\ op.name = "process_query"
    /\ ret.kind = "response"
    /\ Len(conversation_history) = 2
    /\ conversation_history[2].agent_response = ret.response_data.response
    /\ conversation_history[1].agent_response # ret.response_data.response

\* a query failed after another one was answered
C26_FailedAfterAnswer ==
    /\ op.name = "process_query"
    /\ ret.kind = "raised"
    /\ conversation_history # <<>>

(***************************************************************************)
(* Claims on malformed storage files (SpecStorage)                         *)
(***************************************************************************)
\* the files of the storage directory that can be read and parsed
ParseableFiles == SelectSeq(base_path, LAMBDA f : f.kind # "malformed")

\* the number of articles the parseable files hold
StoredInParseableFiles ==
    LET held(f) == IF f.kind = "list" THEN Len(f.items) ELSE 1
        sizes == AsTuple([i \in 1..Len(ParseableFiles) |-> held(ParseableFiles[i])])
        upto[i \in 0..Len(sizes)] == IF i = 0 THEN 0 ELSE upto[i - 1] + sizes[i]
    IN  upto[Len(sizes)]

\* the store was constructed and no article was added since
AsConstructed == op.name \in {"init", "search", "get_ticket", "search_tickets"}

\* C19: a malformed storage file gives zero records from that source and
\* nothing is raised: the article store loads the articles of every other
\* file; with a ticket file that cannot be read or parsed, the local lookup
\* of get_ticket finds nothing and search_tickets returns an empty sequence.
C19_MalformedFileGivesNoRecords ==
    /\ AsConstructed =>
           /\ articles = load_articles(ParseableFiles)
           /\ Len(articles) = StoredInParseableFiles
    /\ (tickets_file.kind = "malformed" /\ op.name = "get_ticket") =>
           /\ ret.trace[1] = "local"
           /\ (Len(ret.trace) = 2) <=> (credentials.username /\ credentials.api_token)
           /\ Len(ret.trace) = 1 => ret.result = Absent
           /\ ret.result.kind # "raised"
    /\ (tickets_file.kind = "malformed" /\ op.name = "search_tickets") =>
           /\ ret.kind = "list"
           /\ ret.results = <<>>

\* a store built over a malformed file followed by a file of articles, with
\* a ticket file that cannot be parsed and a ticket call answered
C19_Witness ==
    /\ Len(base_path) = 2
    /\ base_path[1].kind = "malformed"
    /\ articles # <<>>
    /\ tickets_file.kind = "malformed"
    /\ op.name \in {"get_ticket", "search_tickets"}

(***************************************************************************)
(* Claims on the answers of the agent (SpecDemo)                           *)
(***************************************************************************)
\* the last call was a process_query that returned
Answered == op.name = "process_query" /\ ret.kind = "response"

\* what the article store returns for the query of the last call
FoundArticles == search(articles, op.user_query, NotGiven)

TicketResolved == ret.response_data.ticket_details.kind = "ticket"

\* the sources are the ticket, if any, and then the articles in their order
SourcesFollow(sources, resolved, results) ==
    /\ Len(sources) = (IF resolved THEN 1 ELSE 0) + Len(results)
    /\ resolved => sources[1].type = "ticket"
    /\ \A i \in 1..Len(results) :
           LET source == sources[i + (IF resolved THEN 1 ELSE 0)]
           IN  /\ source.type = "knowledge_base"
               /\ source.id = results[i].article.id
               /\ source.title = results[i].article.title

\* C17: the result of process_query lists at most 3 article results, the
\* top-ranked ones in rank order, and its sources are the ticket source,
\* present and first exactly when a ticket was resolved, followed by one
\* knowledge_base source per returned article in rank order.
C17_TopThreeAndSourceOrder ==
    Answered =>
        /\ Len(ret.response_data.knowledge_base_results) <= 3
        /\ ret.response_data.knowledge_base_results
               = SubSeq(FoundArticles, 1,
                        IF Len(FoundArticles) < 3 THEN Len(FoundArticles) ELSE 3)
        /\ SourcesFollow(ret.response_data.sources, TicketResolved,
                         ret.response_data.knowledge_base_results)

\* a ticket was resolved and the store found more than three articles
C17_Witness ==
    /\ Answered
    /\ TicketResolved
    /\ Len(FoundArticles) > 3
    /\ Len(ret.response_data.sources) = 4
    /\ ret.response_data.sources[1].id = id_1001

\* the response begins with the greeting line
StartsWithGreeting(response) == response # <<>> /\ response[1].part = "greeting"

\* C20: over any sequence of process_query and clear_conversation_history
\* calls, the response starts with the greeting line exactly when the
\* conversation log is empty at the time of the call: for the first query
\* answered and the first answered after each clear_conversation_history,
\* and for no other query.
C20_GreetingIffLogEmpty ==
    [][(/\ op'.name = "process_query"
        /\ ret'.kind = "response"
        /\ conversation_history' # conversation_history)
           => /\ StartsWithGreeting(ret'.response_data.response)
                     <=> (conversation_history = <<>>)
              /\ StartsWithGreeting(ret'.response_data.response)
                     <=> (calls = <<>>)]_vars

\* the first query answered after a clear_conversation_history is greeted
C20_Witness ==
    /\ Answered
    /\ prev_op = "clear_conversation_history"
    /\ StartsWithGreeting(ret.response_data.response)

\* the second query of a conversation is not greeted
C20_SecondQuery ==
    /\ Answered
    /\ Len(conversation_history) = 2
    /\ ~StartsWithGreeting(ret.response_data.response)

(***************************************************************************)
(* Claims on the interactive loop (SpecChat)                               *)
(***************************************************************************)
\* the input is one of exit, quit, bye
AsksToLeave(event) ==
    /\ event.kind = "line"
    /\ lower(Strip(event.line)) \in {s_exit, s_quit, s_bye}

\* the input is a query for the agent
IsQuery(event) ==
    /\ event.kind = "line"
    /\ Strip(event.line) # <<>>
    /\ ~AsksToLeave(event)
    /\ lower(Strip(event.line)) # s_history

\* reading the input fails, or processing the query raises
TurnFails(event, remote) ==
    \/ event.kind = "read_error"
    \/ /\ IsQuery(event)
       /\ process_query(Agent, remote, now, Strip(event.line), chat.conversation_id).raised

\* C25: in the interactive loop a failure raised while reading or processing
\* a turn is caught, an apology line is shown and the loop asks for the next
\* input; the loop ends only on the inputs exit, quit, bye or on a keyboard
\* interrupt.
C25_FailureCaughtLoopGoesOn ==
    [][/\ (chat.at = "input" /\ op'.name = "interactive_turn")
           => /\ TurnFails(op'.event, op'.remote)
                     => (chat'.at = "input" /\ chat'.shown.kind = "apology")
              /\ chat'.at = "ended"
                     <=> (AsksToLeave(op'.event) \/ op'.event.kind = "interrupt")
       /\ chat.at = "ended" => chat' = chat]_vars

\* a query whose processing raised was answered by the apology line, and the
\* loop waits for input
C25_Witness ==
    /\ op.name = "interactive_turn"
    /\ op.event.kind = "line"
    /\ chat.at = "input"
    /\ chat.shown.kind = "apology"

\* the loop was left on the input " EXIT "
C25_LeftOnExit ==
    /\ op.name = "interactive_turn"
    /\ op.event.kind = "line"
    /\ op.event.line # s_exit
    /\ chat.at = "ended"

(***************************************************************************)
(* Claims on reading the article store (SpecRead)                          *)
(***************************************************************************)
\* C24: after any sequence of search, get_all_articles and get_article_by_id
\* calls the stored collection has the same articles in the same order, no
\* stored article has a relevance score field (the returned copies have it),
\* and adding or removing elements of the sequence get_all_articles returned
\* does not change the store's collection.
C24_ReadingLeavesStore ==
    /\ articles = load_articles(base_path)
    /\ \A i \in 1..Len(articles) : "relevance_score" \notin DOMAIN articles[i]
    /\ op.name = "search" =>
           \A i \in 1..Len(ret.results) :
               /\ "relevance_score" \in DOMAIN ret.results[i]
               /\ ret.results[i].article = articles[ret.results[i].position]

\* the caller changed the list get_all_articles returned of a store that
\* holds articles
C24_Witness ==
    /\ op.name = "change_returned_list"
    /\ articles # <<>>
    /\ ret.items # articles
    /\ prev_op = "get_all_articles"

\* a search returned a scored copy of a stored article
C24_ScoredCopy ==
    /\ op.name = "search"
    /\ ret.results # <<>>

(***************************************************************************)
(* Claims on the composed response (SpecCompose)                           *)
(***************************************************************************)
\* a text cut to its first n characters
FirstChars(text, n) == IF Len(text) <= n THEN text ELSE SubSeq(text, 1, n)

\* a content of exactly 300 characters is listed whole, followed by "..."
C21_MarkerAfterWholeContent ==
    /\ Answered
    /\ \E idx \in 1..Len(ret.response_data.knowledge_base_results) :
           \E k \in 1..Len(ret.response_data.response) :
               /\ ret.response_data.response[k].part = "article_content"
               /\ ret.response_data.response[k].text
                      = articles[ret.response_data.knowledge_base_results[idx].position].content
               /\ ret.response_data.response[k + 1].part = "ellipsis"

\* where the lines of the idx-th listed article start in a response
TitleLine(response, idx) ==
    CHOOSE k \in 1..Len(response) :
        response[k].part = "article_title" /\ response[k].idx = idx

\* the article results a response lists
Listed == ret.response_data.knowledge_base_results

\* C21: in the relevant-information block each listed article's content is
\* cut to its first 300 characters, and the "..." marker line follows it
\* exactly when the stored content is longer than 300 characters.
C21_MarkerWhenTruncated ==
    Answered =>
        \A idx \in 1..Len(Listed) :
            LET response == ret.response_data.response
                line == TitleLine(response, idx)
                content == articles[Listed[idx].position].content
            IN  /\ response[line + 1].part = "article_content"
                /\ response[line + 1].text = FirstChars(content, 300)
                /\ (response[line + 2].part = "ellipsis") <=> (Len(content) > 300)

\* the contextual remark of a response: the line after "Based on your
\* query", or the empty remark
Remark(response) ==
    IF \E k \in 1..Len(response) : response[k].part = "query_header"
    THEN response[(CHOOSE k \in 1..Len(response) : response[k].part = "query_header") + 1]
    ELSE NoContext

\* the query of the last call, lowercased, has the word
Asks(word) == Contains(word, lower(op.user_query))

\* the ticket resolved for the last call
ResolvedTicket == ret.response_data.ticket_details

HasTicket == ResolvedTicket.kind = "ticket"

\* the remark each rule builds
StatusRemark == [part |-> "status", text |-> ResolvedTicket.ticket.status]

ProgressRemark ==
    [part |-> "progress",
     text |-> FirstChars(ResolvedTicket.ticket.comments[
                             Len(ResolvedTicket.ticket.comments)].body, 200)]

SolutionRemark ==
    IF Listed # <<>>
    THEN [part |-> "solution", text |-> FirstChars(Listed[1].article.content, 200)]
    ELSE [part |-> "looking_into_solutions", text |-> <<>>]

IssueRemark ==
    [part |-> "issue", text |-> FirstChars(ResolvedTicket.ticket.description, 200)]

GenericRemark ==
    IF Listed # <<>> THEN [part |-> "generic", text |-> <<>>] ELSE NoContext

\* C22 as stated: the contextual remark is chosen by the first matching rule
\* in the order status, progress, resolve/fix, error/issue, generic, where a
\* query containing "status" yields the ticket-status remark and one
\* containing "progress" the latest-comment remark; a lower-priority rule
\* never fires when a higher-priority keyword is present in the query.
C22_AsStated ==
    Answered =>
        LET remark == Remark(ret.response_data.response)
        IN  IF Asks(s_status) THEN HasTicket /\ remark = StatusRemark
            ELSE IF Asks(s_progress)
            THEN HasTicket /\ ResolvedTicket.ticket.comments # <<>>
                           /\ remark = ProgressRemark
            ELSE IF Asks(s_resolve) \/ Asks(s_fix) THEN remark = SolutionRemark
            ELSE IF (Asks(s_error) \/ Asks(s_issue)) /\ HasTicket
            THEN remark = IssueRemark
            ELSE remark = GenericRemark

\* the rules in priority order: when each applies
RuleApplies ==
    << Asks(s_status) /\ HasTicket,
       Asks(s_progress) /\ HasTicket /\ ResolvedTicket.ticket.comments # <<>>,
       Asks(s_resolve) \/ Asks(s_fix),
       (Asks(s_error) \/ Asks(s_issue)) /\ HasTicket,
       TRUE >>

FirstRule == CHOOSE k \in 1..5 : RuleApplies[k] /\ \A j \in 1..(k - 1) : ~RuleApplies[j]

\* C22, amended: the contextual remark is chosen by the first matching rule
\* in the order status, progress, resolve/fix, error/issue, generic, where
\* the status rule matches a query containing "status" when a ticket was
\* resolved and the progress rule a query containing "progress" when a
\* ticket with at least one comment was resolved; a lower-priority rule
\* never fires when a higher-priority rule matches.
C22_FirstMatchingRule ==
    Answered =>
        LET remark == Remark(ret.response_data.response)
        IN  /\ FirstRule = 1 => remark = StatusRemark
            /\ FirstRule = 2 => remark = ProgressRemark
            /\ FirstRule = 3 => remark = SolutionRemark
            /\ FirstRule = 4 => remark = IssueRemark
            /\ FirstRule = 5 => remark = GenericRemark

\* a query with "status" and "fix" about a resolved ticket gets the status
\* remark
C22_Witness ==
    /\ Answered
    /\ Asks(s_status) /\ Asks(s_fix) /\ HasTicket
    /\ Remark(ret.response_data.response) = StatusRemark

\* a query with "progress" and "error" about a ticket without comments gets
\* the ticket description
C22_ProgressWithoutComments ==
    /\ Answered
    /\ Asks(s_progress) /\ Asks(s_error) /\ HasTicket
    /\ ResolvedTicket.ticket.comments = <<>>
    /\ Remark(ret.response_data.response) = IssueRemark

\* the response has the sentence asking for more detail
AsksForDetail(response) ==
    \E k \in 1..Len(response) : response[k].part = "nothing_found"

\* C23: the fallback sentence asking for more detail is in the composed
\* response exactly when neither a ticket was resolved nor any article was
\* found, and the closing line is the last line of every composed response.
C23_FallbackAndClosing ==
    Answered =>
        /\ AsksForDetail(ret.response_data.response)
               <=> (~HasTicket /\ FoundArticles = <<>>)
        /\ ret.response_data.response[Len(ret.response_data.response)].part = "closing"

\* a query about a ticket no source holds, with no article found, is asked
\* for more detail
C23_Witness ==
    /\ Answered
    /\ extract_ticket_reference(op.user_query) # <<>>
    /\ ~HasTicket
    /\ FoundArticles = <<>>
    /\ AsksForDetail(ret.response_data.response)

\* no ticket, but articles: no fallback sentence
C23_ArticlesOnly ==
    /\ Answered
    /\ ~HasTicket
    /\ FoundArticles # <<>>
    /\ ~AsksForDetail(ret.response_data.response)

\* the entry the last call appended to the conversation log
AppendedEntry == conversation_history[Len(conversation_history)]

\* C27: the ticket reference recorded in the entry process_query appends is
\* non-empty only when a ticket was resolved for that query, and is empty
\* when no reference was extracted or the referenced ticket was not found in
\* any source.
C27_ReferenceOfResolvedTicket ==
    Answered =>
        /\ AppendedEntry.ticket_reference # <<>> => HasTicket
        /\ (extract_ticket_reference(op.user_query) = <<>> \/ ~HasTicket)
               => AppendedEntry.ticket_reference = <<>>

\* the entry of a query about a ticket no source holds records the reference
C27_UnresolvedReferenceRecorded ==
    /\ Answered
    /\ ~HasTicket
    /\ AppendedEntry.ticket_reference = s_PROJ_9999

(***************************************************************************)
(* Claims on both searches (SpecSearch)                                    *)
(***************************************************************************)
\* the score of a result of either search
ScoreOf(result) ==
    IF op.name = "search" THEN result.relevance_score ELSE result.match_score

\* C4: the results of KnowledgeBase.search and of search_tickets are in
\* descending score order, and two results with equal scores are in the
\* order in which they are stored.
C4_DescendingStable ==
    op.name \in {"search", "search_tickets"} =>
        \A i, j \in 1..Len(ret.results) :
            i < j =>
                /\ ~RatLess(ScoreOf(ret.results[i]), ScoreOf(ret.results[j]))
                /\ RatEq(ScoreOf(ret.results[i]), ScoreOf(ret.results[j])) =>
                       ret.results[i].position < ret.results[j].position

\* an article search that returned a later article before an earlier one
\* of smaller score, and two articles of equal score
C4_Witness ==
    /\ op.name = "search"
    /\ \E i, j \in 1..Len(ret.results) :
           /\ i < j
           /\ ret.results[i].position > ret.results[j].position
    /\ \E i, j \in 1..Len(ret.results) :
           /\ i < j
           /\ RatEq(ret.results[i].relevance_score, ret.results[j].relevance_score)

\* a ticket search that returned a later ticket first
TicketsReordered ==
    /\ op.name = "search_tickets"
    /\ \E i, j \in 1..Len(ret.results) :
           /\ i < j
           /\ ret.results[i].position > ret.results[j].position

\* a ticket search that returned two tickets of equal score
TicketsTied ==
    /\ op.name = "search_tickets"
    /\ \E i, j \in 1..Len(ret.results) :
           /\ i < j
           /\ RatEq(ret.results[i].match_score, ret.results[j].match_score)

====
